---- MODULE Spec2Model ----
(***************************************************************************)
(* Chicago-crime safety-risk classifier: the ETL notebook (aggregate and   *)
(* label), the feature-engineering notebook (split, engineer_features,     *)
(* recombine and save) and the loading cell of the pipeline notebook.      *)
(*                                                                         *)
(* Numbers.  A pandas float64 cell is modelled exactly as a value          *)
(*   [k, s, n, d]:  k = "nan" (missing), "inf", or "q" (the rational       *)
(*   s * n / d), "root" (the square root of n / d).  n and d are naturals  *)
(*   written in two limbs <<hi, lo>> (hi * Base + lo), because a product   *)
(*   of two coordinates does not fit a 32-bit integer.                     *)
(* Coordinates are counted in units of 1e-4 degree, so that the city       *)
(*   centre (41.8781, -87.6298) is the pair (418781, -876298).             *)
(* A DataFrame is [cols, rows]: its column names in order and the sequence *)
(*   of its rows; a row is a record whose field idx is the row's index     *)
(*   label and whose other fields are its columns.  A Series is a sequence *)
(*   of [idx, v] cells.                                                    *)
(***************************************************************************)
EXTENDS Integers, Sequences, FiniteSets, TLC

VARIABLES
  \* ---- engineer_features called as a function (heap of DataFrame objects)
  eng_heap,     \* object id -> DataFrame
  eng_t,        \* the object the caller holds (the partition)
  eng_arg,      \* the object passed to the latest call (0: no call yet)
  eng_before,   \* the passed object's content when that call began
  eng_r,        \* the object the latest call returned (0: none)
  eng_input,    \* the content of eng_t before any call
  eng_pc,
  \* ---- the files on disk: path -> [cols, rows] (a CSV file: header and records)
  fs,
  \* ---- the ETL notebook
  portal,       \* the data portal's incidents: record kind -> how many
  etl,          \* the notebook's global names -> values
  etl_pc,
  \* ---- the feature-engineering notebook
  fe,           \* the notebook's global names -> values
  fe_pc,
  seeded,       \* <<seed, target, test size>> -> the draw RandomState(seed) gave for it
  \* ---- the pipeline notebook
  ml,           \* the notebook's global names -> values
  ml_pc,
  \* ---- a later session that loads the saved pipeline
  inference     \* the session's global names -> values

engVars == <<eng_heap, eng_t, eng_arg, eng_before, eng_r, eng_input, eng_pc>>
etlVars == <<portal, etl, etl_pc>>

feVars == <<fe, fe_pc, seeded>>
mlVars == <<ml, ml_pc, inference>>

vars == <<engVars, fs, etlVars, feVars, mlVars>>

(***************************************************************************)
(* Bounds of the model                                                     *)
(***************************************************************************)
MaxCount == 2       \* CrimeCount and ViolentCount cells range over 0..MaxCount and NaN
MaxCompanions == 1  \* rows accompanying the row under test in a table given to engineer_features
MaxLow == 6         \* rows labelled Risk = 0 in the dataset read by the feature-engineering notebook
MaxHigh == 5        \* rows labelled Risk = 1 in that dataset
MaxMissing == 1     \* rows without a Risk label in that dataset
MaxTrainRows == 2   \* rows of the engineered training dataset read by the pipeline notebook
MaxEvalRows == 1    \* rows of the engineered validation and test datasets
MaxRows == 120      \* dataset sizes the sizes of the two split stages are computed for

MaxRecords == 5     \* incidents held by the data portal

(***************************************************************************)
(* float64 values                                                          *)
(***************************************************************************)
Base == 10^6

BigZero == <<0, 0>>
BigOne == <<0, 1>>

AbsInt(i) == IF i < 0 THEN -i ELSE i
SignInt(i) == IF i < 0 THEN -1 ELSE IF i = 0 THEN 0 ELSE 1

\* a * b for naturals a, b < Base, in two limbs
BigMul(a, b) ==
  LET a1 == a \div 1000
      a0 == a % 1000
      b1 == b \div 1000
      b0 == b % 1000
      mid == a1 * b0 + a0 * b1
      low == (mid % 1000) * 1000 + a0 * b0
  IN  <<a1 * b1 + (mid \div 1000) + (low \div Base), low % Base>>

BigAdd(x, y) == <<x[1] + y[1] + ((x[2] + y[2]) \div Base), (x[2] + y[2]) % Base>>

NaN == [k |-> "nan", s |-> 0, n |-> BigZero, d |-> BigOne]
Inf(sg) == [k |-> "inf", s |-> sg, n |-> BigZero, d |-> BigOne]

\* the float with the integer value i (|i| < Base)
F(i) == [k |-> "q", s |-> SignInt(i), n |-> <<0, AbsInt(i)>>, d |-> BigOne]

IsNaN(v) == v.k = "nan"
IsInt(v) == v.k = "q" /\ v.d = BigOne
IsSmallInt(v) == IsInt(v) /\ v.n[1] = 0
IntOf(v) == v.s * v.n[2]

RECURSIVE GCD(_, _)
GCD(a, b) == IF b = 0 THEN a ELSE GCD(b, a % b)

\* x * y for integer-valued floats below Base in magnitude
Mul(x, y) ==
  IF IsNaN(x) \/ IsNaN(y) THEN NaN
  ELSE [k |-> "q", s |-> x.s * y.s, n |-> BigMul(x.n[2], y.n[2]), d |-> BigOne]

Abs(x) == IF x.k = "q" /\ x.s < 0 THEN [x EXCEPT !.s = 1]
          ELSE IF x.k = "inf" THEN Inf(1) ELSE x

\* x - y for small integer-valued floats
Sub(x, y) == IF IsNaN(x) \/ IsNaN(y) THEN NaN ELSE F(IntOf(x) - IntOf(y))

\* x + y for non-negative integer-valued floats
Add(x, y) ==
  IF IsNaN(x) \/ IsNaN(y) THEN NaN
  ELSE LET m == BigAdd(x.n, y.n)
       IN  [k |-> "q", s |-> IF m = BigZero THEN 0 ELSE 1, n |-> m, d |-> BigOne]

Square(x) == Mul(x, x)

\* x / y as IEEE division: x a small integer, y an integer; 0/0 is NaN and
\* c/0 is an infinity.  The quotient is reduced when the divisor is small.
Div(x, y) ==
  IF IsNaN(x) \/ IsNaN(y) THEN NaN
  ELSE IF y.s = 0 THEN (IF x.s = 0 THEN NaN ELSE Inf(x.s))
  ELSE IF x.s = 0 THEN F(0)
  ELSE IF y.n[1] = 0
       THEN LET g == GCD(x.n[2], y.n[2])
            IN  [k |-> "q", s |-> x.s * y.s, n |-> <<0, x.n[2] \div g>>,
                 d |-> <<0, y.n[2] \div g>>]
       ELSE [k |-> "q", s |-> x.s * y.s, n |-> x.n, d |-> y.n]

\* sqrt of a non-negative integer-valued float x: 0 for 0, and otherwise the
\* value written "root" of x (the square root of n / d)
Sqrt(x) ==
  IF IsNaN(x) THEN NaN
  ELSE IF x.s = 0 THEN F(0)
  ELSE [k |-> "root", s |-> 1, n |-> x.n, d |-> x.d]

(***************************************************************************)
(* Series and DataFrame operations of pandas                               *)
(***************************************************************************)
Positions(s) == 1..Len(s)

Range(s) == {s[i] : i \in Positions(s)}

\* df[c]
Col(df, c) == [i \in Positions(df.rows) |-> [idx |-> df.rows[i].idx, v |-> df.rows[i][c]]]

\* the cell of Series s carrying index label l (NaN when s has no such label)
At(s, l) ==
  IF \E i \in Positions(s) : s[i].idx = l
  THEN s[CHOOSE i \in Positions(s) : s[i].idx = l].v
  ELSE NaN

\* a * b, a / b, a + b between two Series: aligned on the index
SeriesMul(a, b) == [i \in Positions(a) |-> [idx |-> a[i].idx, v |-> Mul(a[i].v, At(b, a[i].idx))]]
SeriesDiv(a, b) == [i \in Positions(a) |-> [idx |-> a[i].idx, v |-> Div(a[i].v, At(b, a[i].idx))]]
SeriesAdd(a, b) == [i \in Positions(a) |-> [idx |-> a[i].idx, v |-> Add(a[i].v, At(b, a[i].idx))]]

\* a.abs(), a - c, a ** 2, np.sqrt(a)
SeriesAbs(a) == [i \in Positions(a) |-> [a[i] EXCEPT !.v = Abs(@)]]
SeriesSubScalar(a, c) == [i \in Positions(a) |-> [a[i] EXCEPT !.v = Sub(@, F(c))]]
SeriesSquare(a) == [i \in Positions(a) |-> [a[i] EXCEPT !.v = Square(@)]]
SeriesSqrt(a) == [i \in Positions(a) |-> [a[i] EXCEPT !.v = Sqrt(@)]]

\* s.replace(old, new)
Replace(s, old, new) == [i \in Positions(s) |-> [s[i] EXCEPT !.v = IF @ = old THEN new ELSE @]]

\* s.fillna(value)
Fillna(s, value) == [i \in Positions(s) |-> [s[i] EXCEPT !.v = IF IsNaN(@) THEN value ELSE @]]

\* df[c] = s : sets (adds or overwrites) column c, row by row on the index
SetCol(df, c, s) ==
  [cols |-> IF c \in Range(df.cols) THEN df.cols ELSE Append(df.cols, c),
   rows |-> [i \in Positions(df.rows) |-> (c :> At(s, df.rows[i].idx)) @@ df.rows[i]]]

(***************************************************************************)
(* engineer_features (02-FeatureEngineering.ipynb)                         *)
(***************************************************************************)
city_center_lat == 418781
city_center_lon == -876298

FeatureColumns == {"CrimeDensity", "ViolentRatio", "DistanceFromCenter"}

\* the denominator taken without .abs()
Denominator_NoAbs(df) == SeriesMul(Col(df, "latitude"), Col(df, "longitude"))

\* denominator = (df["latitude"] * df["longitude"]).abs()
Denominator(df) == SeriesAbs(SeriesMul(Col(df, "latitude"), Col(df, "longitude")))

\* CrimeDensity assigned without the closing fillna(0)
SetCrimeDensity_NoFillna(df) ==
  SetCol(df, "CrimeDensity",
         SeriesDiv(Col(df, "CrimeCount"), Replace(Denominator(df), F(0), F(1))))

\* df["CrimeDensity"] = df["CrimeCount"] / denominator.replace(0, 1)
\* df["CrimeDensity"] = df["CrimeDensity"].fillna(0)
SetCrimeDensity(df) ==
  LET df1 == SetCol(df, "CrimeDensity",
                    SeriesDiv(Col(df, "CrimeCount"), Replace(Denominator(df), F(0), F(1))))
  IN  SetCol(df1, "CrimeDensity", Fillna(Col(df1, "CrimeDensity"), F(0)))

\* ViolentRatio divided by CrimeCount itself, without replace(0, 1)
SetViolentRatio_NoReplace(df) ==
  LET df1 == SetCol(df, "ViolentRatio", SeriesDiv(Col(df, "ViolentCount"), Col(df, "CrimeCount")))
  IN  SetCol(df1, "ViolentRatio", Fillna(Col(df1, "ViolentRatio"), F(0)))

\* df["ViolentRatio"] = df["ViolentCount"] / df["CrimeCount"].replace(0, 1)
\* df["ViolentRatio"] = df["ViolentRatio"].fillna(0)
SetViolentRatio(df) ==
  LET df1 == SetCol(df, "ViolentRatio",
                    SeriesDiv(Col(df, "ViolentCount"), Replace(Col(df, "CrimeCount"), F(0), F(1))))
  IN  SetCol(df1, "ViolentRatio", Fillna(Col(df1, "ViolentRatio"), F(0)))

\* the offset taken without fillna(center)
SquaredOffset_NoFillna(df, c, center) == SeriesSquare(SeriesSubScalar(Col(df, c), center))

\* (df[c].fillna(center) - center) ** 2
SquaredOffset(df, c, center) ==
  SeriesSquare(SeriesSubScalar(Fillna(Col(df, c), F(center)), center))

\* the distance measured from the first row of the frame instead of the fixed
\* city centre
SetDistanceFromCenter_FrameCentre(df) ==
  LET known == df.rows # <<>> /\ ~IsNaN(df.rows[1].latitude) /\ ~IsNaN(df.rows[1].longitude)
      lat0 == IF known THEN IntOf(df.rows[1].latitude) ELSE city_center_lat
      lon0 == IF known THEN IntOf(df.rows[1].longitude) ELSE city_center_lon
  IN  SetCol(df, "DistanceFromCenter",
             SeriesSqrt(SeriesAdd(SquaredOffset(df, "latitude", lat0),
                                  SquaredOffset(df, "longitude", lon0))))

\* df["DistanceFromCenter"] = np.sqrt((lat - lat0) ** 2 + (lon - lon0) ** 2)
SetDistanceFromCenter(df) ==
  SetCol(df, "DistanceFromCenter",
         SeriesSqrt(SeriesAdd(SquaredOffset(df, "latitude", city_center_lat),
                              SquaredOffset(df, "longitude", city_center_lon))))

\* engineer_features with the zero counts replaced in the CrimeCount column itself
engineer_features_ReplaceInPlace(df) ==
  SetDistanceFromCenter(SetViolentRatio(SetCrimeDensity(
    SetCol(df, "CrimeCount", Replace(Col(df, "CrimeCount"), F(0), F(1))))))

\* The function assigns the three columns to the frame it is given and
\* returns that frame: this is the content of the frame after the call.
engineer_features(df) == SetDistanceFromCenter(SetViolentRatio(SetCrimeDensity(df)))

(***************************************************************************)
(* engineer_features as a function: tables drawn from bounded sets         *)
(***************************************************************************)
CountCells == {NaN} \cup {F(c) : c \in 0..MaxCount}
LatCells == {NaN, F(0), F(city_center_lat), F(city_center_lat + 3)}
LonCells == {NaN, F(0), F(city_center_lon), F(city_center_lon - 4)}

AggregateFields ==
  [latitude : LatCells, longitude : LonCells, CrimeCount : CountCells, ViolentCount : CountCells]

AggregateHeader == <<"latitude", "longitude", "CrimeCount", "ViolentCount">>

\* a frame of the given columns and rows with the default RangeIndex 0..n-1
Frame(header, f) ==
  [cols |-> header, rows |-> [i \in Positions(f) |-> ("idx" :> (i - 1)) @@ f[i]]]

\* rows that accompany the row under test
CompanionFields ==
  { [latitude |-> F(city_center_lat), longitude |-> F(city_center_lon),
     CrimeCount |-> F(2), ViolentCount |-> F(1)],
    [latitude |-> NaN, longitude |-> F(0), CrimeCount |-> F(0), ViolentCount |-> NaN] }

\* the empty table, and every table of one row of AggregateFields followed by
\* up to MaxCompanions companion rows
EngTables ==
  {Frame(AggregateHeader, <<>>)} \cup
  UNION {{Frame(AggregateHeader, <<r>> \o c) : r \in AggregateFields, c \in [1..n -> CompanionFields]}
         : n \in 0..MaxCompanions}

\* the frame itself passed instead of a copy
frame_copy_Alias(heap, x) == x

\* X.copy(): a new object, the next free id of the heap
frame_copy(heap, x) == Cardinality(DOMAIN heap) + 1

EngInit ==
  /\ \E t \in EngTables : /\ eng_heap = (1 :> t)
                          /\ eng_input = t
  /\ eng_t = 1
  /\ eng_arg = 0
  /\ eng_before = Frame(<<>>, <<>>)
  /\ eng_r = 0
  /\ eng_pc = "start"
  \* no notebook runs, no file exists
  /\ fs = <<>>
  /\ portal = <<>>
  /\ etl = <<>>
  /\ etl_pc = "idle"
  /\ fe = <<>>
  /\ fe_pc = "idle"
  /\ seeded = <<>>
  /\ ml = <<>>
  /\ ml_pc = "idle"
  /\ inference = <<>>

\* r = engineer_features(a): the frame a is updated in place and returned
EngCall(heap, a) ==
  /\ eng_arg' = a
  /\ eng_before' = heap[a]
  /\ eng_heap' = [heap EXCEPT ![a] = engineer_features(@)]
  /\ eng_r' = a

\* X_fe = engineer_features(X)
EngApply ==
  /\ eng_pc = "start"
  /\ EngCall(eng_heap, eng_t)
  /\ eng_pc' = "applied"
  /\ UNCHANGED <<eng_t, eng_input, fs, etlVars, feVars, mlVars>>

\* X_fe = engineer_features(X.copy()), the notebook's call sites
EngApplyToCopy ==
  /\ eng_pc = "start"
  /\ LET c == frame_copy(eng_heap, eng_t)
     IN  EngCall((c :> eng_heap[eng_t]) @@ eng_heap, c)
  /\ eng_pc' = "site"
  /\ UNCHANGED <<eng_t, eng_input, fs, etlVars, feVars, mlVars>>

\* engineer_features(X_fe): the function applied to its own output
EngApplyAgain ==
  /\ eng_pc \in {"applied", "site"}
  /\ EngCall(eng_heap, eng_r)
  /\ eng_pc' = "reapplied"
  /\ UNCHANGED <<eng_t, eng_input, fs, etlVars, feVars, mlVars>>

EngNext == EngApply \/ EngApplyToCopy \/ EngApplyAgain

(***************************************************************************)
(* The ETL notebook: extract, clean, aggregate and label, save             *)
(***************************************************************************)
\* A raw cell is text, a sequence of characters, or None (the key is absent
\* from the record returned by the portal).
None == <<"None">>
\* an absent text cell (primary_type)
NoText == "None"

Lat1 == <<"4", "1", ".", "8", "7", "8", "1">>
Lat2 == <<"4", "1", ".", "8", "7", "8", "4">>
Lon1 == <<"-", "8", "7", ".", "6", "2", "9", "8">>
Lon2 == <<"-", "8", "7", ".", "6", "3">>
NotANumber == <<"N", "/", "A">>

LatTokens == {Lat1, Lat2, None}
LonTokens == {Lon1, Lon2, NotANumber}
TypeTokens == {"THEFT", "BATTERY"}
DateToken == "2024-09-01T00:00:00.000"

\* the kinds of record the portal can hold: every type of incident at every
\* location, a record whose latitude is absent, one whose longitude is not a
\* number and one whose primary_type is absent
RawKinds ==
  {k \in [date : {DateToken}, latitude : LatTokens, longitude : LonTokens,
          primary_type : TypeTokens \cup {NoText}] :
     \/ (k.latitude # None /\ k.longitude # NotANumber /\ k.primary_type # NoText)
     \/ (k.latitude = None /\ k.longitude = Lon1 /\ k.primary_type = "THEFT")
     \/ (k.latitude = Lat1 /\ k.longitude = NotANumber /\ k.primary_type = "BATTERY")
     \/ (k.latitude = Lat1 /\ k.longitude = Lon1 /\ k.primary_type = NoText)}

DigitVal == ("0" :> 0) @@ ("1" :> 1) @@ ("2" :> 2) @@ ("3" :> 3) @@ ("4" :> 4) @@
            ("5" :> 5) @@ ("6" :> 6) @@ ("7" :> 7) @@ ("8" :> 8) @@ ("9" :> 9)

RECURSIVE DigitsValue(_)
DigitsValue(ds) ==
  IF ds = <<>> THEN 0
  ELSE 10 * DigitsValue(SubSeq(ds, 1, Len(ds) - 1)) + DigitVal[ds[Len(ds)]]

\* decimal places kept by the unit of the coordinates (1e-4 degree)
CoordDecimals == Len(Lat1) - 3

\* pd.to_numeric(cell, errors="coerce") of one cell: the number written in
\* plain decimal notation, in units of 1e-4; NaN for None and for any text
\* that is not such a number
to_numeric(cell) ==
  IF cell = None \/ cell = <<>> THEN NaN
  ELSE LET neg == cell[1] = "-"
           body == IF neg THEN Tail(cell) ELSE cell
           dots == {i \in Positions(body) : body[i] = "."}
           p == IF dots = {} THEN Len(body) + 1 ELSE CHOOSE i \in dots : TRUE
           ip == SubSeq(body, 1, p - 1)
           fp == SubSeq(body, p + 1, Len(body))
       IN  IF \/ Cardinality(dots) > 1
              \/ \E i \in Positions(body) : body[i] \notin DOMAIN DigitVal \cup {"."}
              \/ (ip = <<>> /\ fp = <<>>)
           THEN NaN
           ELSE F((IF neg THEN -1 ELSE 1) *
                  (DigitsValue(ip) * 10^CoordDecimals
                     + DigitsValue(fp) * 10^(CoordDecimals - Len(fp))))

\* pd.to_datetime(text): the hour and the day of the week (Monday = 0)
to_datetime(text) == [hour |-> 0, dayofweek |-> 6]

violent_crimes == {"HOMICIDE", "ASSAULT", "BATTERY", "ROBBERY", "CRIM SEXUAL ASSAULT"}

RECURSIVE Repeat(_, _)
Repeat(x, n) == IF n = 0 THEN <<>> ELSE <<x>> \o Repeat(x, n - 1)

RECURSIVE KindsInOrder(_)
KindsInOrder(S) ==
  IF S = {} THEN <<>>
  ELSE LET k == CHOOSE x \in S : TRUE IN <<k>> \o KindsInOrder(S \ {k})

RECURSIVE Listing(_, _)
Listing(bag, ks) ==
  IF ks = <<>> THEN <<>> ELSE Repeat(ks[1], bag[ks[1]]) \o Listing(bag, Tail(ks))

\* client.get(...): the portal's records as a list (the query sets no order)
PortalRecords == Listing(portal, KindsInOrder(DOMAIN portal))

PortalSize == Len(PortalRecords)

\* the value a record shows for a key it does not have
Absent(c) == IF c \in {"latitude", "longitude"} THEN None ELSE NoText

\* pd.DataFrame.from_records(results): the columns are the keys that occur
\* in some record (no record, no column); a key absent from a record is a
\* missing cell
from_records(results) ==
  Frame(SelectSeq(<<"date", "primary_type", "latitude", "longitude">>,
                  LAMBDA c : \E i \in Positions(results) : results[i][c] # Absent(c)),
        results)

\* df[columns].copy(): KeyError when a column is missing
HasColumns(df, columns) == Range(columns) \subseteq Range(df.cols)

Project(df, columns) ==
  [cols |-> columns,
   rows |-> [i \in Positions(df.rows) |->
               [c \in Range(columns) \cup {"idx"} |-> df.rows[i][c]]]]

RECURSIVE SelectSeq2(_, _)
\* the rows of a sequence whose index label is in keep, in order
SelectSeq2(rows, keep) ==
  IF rows = <<>> THEN <<>>
  ELSE (IF rows[1].idx \in keep THEN <<rows[1]>> ELSE <<>>) \o SelectSeq2(Tail(rows), keep)

\* every row dropped only when all the named columns are missing
dropna_KeepAll(df, subset) == df

\* df.dropna(subset=cols)
dropna(df, subset) ==
  [df EXCEPT !.rows =
     SelectSeq2(@, {r.idx : r \in {x \in Range(@) : \A c \in subset : ~IsNaN(x[c])}})]

\* the cleaning cell, from df = df[columns].copy() to df["IsViolent"] = ...
Cleaned(df) ==
  LET d0 == Project(df, <<"date", "latitude", "longitude", "primary_type">>)
      d1 == [d0 EXCEPT !.rows = [i \in Positions(@) |->
               [@[i] EXCEPT !.latitude = to_numeric(@), !.longitude = to_numeric(@)]]]
      d2 == dropna(d1, {"latitude", "longitude"})
  IN  [cols |-> d2.cols \o <<"Hour", "DayOfWeek", "IsViolent">>,
       rows |-> [i \in Positions(d2.rows) |->
                   ("Hour" :> to_datetime(d2.rows[i].date).hour)
                   @@ ("DayOfWeek" :> to_datetime(d2.rows[i].date).dayofweek)
                   @@ ("IsViolent" :> IF d2.rows[i].primary_type \in violent_crimes THEN 1 ELSE 0)
                   @@ d2.rows[i]]]

\* x < y for integer-valued cells
LessInt(x, y) == IntOf(x) < IntOf(y)

KeyLess(a, b) ==
  \/ LessInt(a[1], b[1])
  \/ (a[1] = b[1] /\ LessInt(a[2], b[2]))

RECURSIVE SortKeys(_)
\* the group keys in ascending order (groupby sorts its keys)
SortKeys(S) ==
  IF S = {} THEN <<>>
  ELSE LET m == CHOOSE k \in S : \A o \in S \ {k} : KeyLess(k, o)
       IN  <<m>> \o SortKeys(S \ {m})

\* df.groupby(["latitude", "longitude"]).agg(CrimeCount=("primary_type",
\* "count"), ViolentCount=("IsViolent", "sum")).reset_index()
RECURSIVE SumOver(_, _)
SumOver(rows, c) == IF rows = <<>> THEN 0 ELSE rows[1][c] + SumOver(Tail(rows), c)

GroupRows(df, key) ==
  SelectSeq2(df.rows, {r.idx : r \in {x \in Range(df.rows) : <<x.latitude, x.longitude>> = key}})

groupby_agg(df) ==
  LET keys == SortKeys({<<r.latitude, r.longitude>> : r \in Range(df.rows)})
  IN  Frame(<<"latitude", "longitude", "CrimeCount", "ViolentCount">>,
            [i \in Positions(keys) |->
               [latitude |-> keys[i][1], longitude |-> keys[i][2],
                CrimeCount |-> F(Cardinality({r \in Range(GroupRows(df, keys[i])) :
                                                 r.primary_type # NoText})),
                ViolentCount |-> F(SumOver(GroupRows(df, keys[i]), "IsViolent"))]])

\* the k-th smallest cell of a Series of integer-valued cells
OrderStat(s, k) ==
  CHOOSE v \in {c.v : c \in Range(s)} :
    /\ Cardinality({i \in Positions(s) : LessInt(s[i].v, v)}) < k
    /\ Cardinality({i \in Positions(s) : ~LessInt(v, s[i].v)}) >= k

\* the smallest cell taken as the threshold
median_Smallest(s) == IF Len(s) = 0 THEN NaN ELSE OrderStat(s, 1)

\* s.median(): NaN for an empty Series, the middle cell for an odd length,
\* the mean of the two middle cells for an even one
median(s) ==
  LET n == Len(s)
  IN  IF n = 0 THEN NaN
      ELSE IF n % 2 = 1 THEN OrderStat(s, (n + 1) \div 2)
      ELSE Div(F(IntOf(OrderStat(s, n \div 2)) + IntOf(OrderStat(s, n \div 2 + 1))), F(2))

\* x > y for a small integer x and a small rational y; False against NaN
Gt(x, y) ==
  /\ ~IsNaN(x) /\ ~IsNaN(y)
  /\ x.s * x.n[2] * y.d[2] > y.s * y.n[2] * x.d[2]

\* a label that also marks the locations tied with the median
risk_label_AtLeast(count, median_count) ==
  IF Gt(count, median_count) \/ count = median_count THEN F(1) ELSE F(0)

\* location_counts["Risk"] = (location_counts["CrimeCount"] > median_count).astype(int)
risk_label(count, median_count) == IF Gt(count, median_count) THEN F(1) ELSE F(0)

WithRisk(lc, median_count) ==
  SetCol(lc, "Risk",
         [i \in Positions(lc.rows) |->
            [idx |-> lc.rows[i].idx, v |-> risk_label(lc.rows[i].CrimeCount, median_count)]])

\* df.to_csv(path, index=False): the header and the records, without the index
to_csv(df) ==
  [cols |-> df.cols,
   rows |-> [i \in Positions(df.rows) |-> [c \in Range(df.cols) |-> df.rows[i][c]]]]

\* pd.read_csv(path): the records under a new RangeIndex
read_csv(file) == Frame(file.cols, file.rows)

TransformedPath == "../chicago_crimes_latest_transformed.csv"

EtlInit ==
  /\ portal = [k \in RawKinds |-> 0]
  /\ etl = <<>>
  /\ etl_pc = "extract"
  /\ fs = <<>>
  \* no table is handed to engineer_features on its own
  /\ eng_heap = <<>>
  /\ eng_input = Frame(<<>>, <<>>)
  /\ eng_t = 0
  /\ eng_arg = 0
  /\ eng_before = Frame(<<>>, <<>>)
  /\ eng_r = 0
  /\ eng_pc = "idle"
  /\ fe = <<>>
  /\ fe_pc = "idle"
  /\ seeded = <<>>
  /\ ml = <<>>
  /\ ml_pc = "idle"
  /\ inference = <<>>

\* an incident is recorded by the city's data portal before the notebook runs
Report(k) ==
  /\ etl_pc = "extract"
  /\ PortalSize < MaxRecords
  /\ portal' = [portal EXCEPT ![k] = @ + 1]
  /\ UNCHANGED <<etl, etl_pc, fs, engVars, feVars, mlVars>>

\* Step 3: results = client.get(...), or [] when the request fails;
\* df = pd.DataFrame.from_records(results)
Extract ==
  /\ etl_pc = "extract"
  /\ \E results \in {PortalRecords, <<>>} :
       etl' = ("results" :> results) @@ ("df" :> from_records(results)) @@ etl
  /\ etl_pc' = "clean"
  /\ UNCHANGED <<portal, fs, engVars, feVars, mlVars>>

\* Step 5: select the columns, coerce the coordinates, drop the rows with a
\* missing coordinate, derive Hour, DayOfWeek and IsViolent
Clean ==
  /\ etl_pc = "clean"
  /\ IF HasColumns(etl.df, <<"date", "latitude", "longitude", "primary_type">>)
     THEN /\ etl' = ("df" :> Cleaned(etl.df)) @@ etl
          /\ etl_pc' = "aggregate"
     ELSE /\ etl_pc' = "KeyError"
          /\ UNCHANGED etl
  /\ UNCHANGED <<portal, fs, engVars, feVars, mlVars>>

\* Step 6: aggregate by location and define Risk
Aggregate ==
  /\ etl_pc = "aggregate"
  /\ LET lc == groupby_agg(etl.df)
         m == median(Col(lc, "CrimeCount"))
     IN  etl' = ("location_counts" :> WithRisk(lc, m)) @@ ("median_count" :> m) @@ etl
  /\ etl_pc' = "save"
  /\ UNCHANGED <<portal, fs, engVars, feVars, mlVars>>

\* Step 7: location_counts.to_csv(output_file, index=False)
SaveTransformed ==
  /\ etl_pc = "save"
  /\ fs' = (TransformedPath :> to_csv(etl.location_counts)) @@ fs
  /\ etl_pc' = "done"
  /\ UNCHANGED <<portal, etl, engVars, feVars, mlVars>>

EtlNext ==
  \/ \E k \in RawKinds : Report(k)
  \/ Extract
  \/ Clean
  \/ Aggregate
  \/ SaveTransformed

SpecETL == EtlInit /\ [][EtlNext]_vars

(***************************************************************************)
(* The feature-engineering notebook: load, split, engineer, save           *)
(***************************************************************************)
InputPath == "chicago_crimes_latest_transformed.csv"
TrainPath == "../train_engineered.csv"
ValPath == "../val_engineered.csv"
TestPath == "../test_engineered.csv"

\* the four aggregate fields of the rows of a dataset, repeated in this order
FieldPatterns ==
  << [latitude |-> F(city_center_lat), longitude |-> F(city_center_lon),
      CrimeCount |-> F(2), ViolentCount |-> F(1)],
     [latitude |-> F(city_center_lat + 3), longitude |-> F(city_center_lon - 4),
      CrimeCount |-> F(1), ViolentCount |-> F(0)],
     [latitude |-> NaN, longitude |-> F(0), CrimeCount |-> F(0), ViolentCount |-> NaN] >>

RECURSIVE RiskCells(_, _, _)
\* a Risk column of n0 zeros, n1 ones and nn missing cells, taken in turn
RiskCells(n0, n1, nn) ==
  IF n0 + n1 + nn = 0 THEN <<>>
  ELSE (IF n0 > 0 THEN <<F(0)>> ELSE <<>>)
       \o (IF n1 > 0 THEN <<F(1)>> ELSE <<>>)
       \o (IF nn > 0 THEN <<NaN>> ELSE <<>>)
       \o RiskCells(IF n0 > 0 THEN n0 - 1 ELSE 0,
                    IF n1 > 0 THEN n1 - 1 ELSE 0,
                    IF nn > 0 THEN nn - 1 ELSE 0)

\* a transformed dataset on disk
LabelledFile(n0, n1, nn) ==
  LET risk == RiskCells(n0, n1, nn)
  IN  [cols |-> AggregateHeader \o <<"Risk">>,
       rows |-> [i \in Positions(risk) |->
                   ("Risk" :> risk[i]) @@ FieldPatterns[((i - 1) % Len(FieldPatterns)) + 1]]]

LabelledFiles ==
  {LabelledFile(n0, n1, nn) : n0 \in 0..MaxLow, n1 \in 0..MaxHigh, nn \in 0..MaxMissing}

\* df.drop(columns=[c])
Drop(df, c) ==
  [cols |-> SelectSeq(df.cols, LAMBDA x : x # c),
   rows |-> [i \in Positions(df.rows) |->
               [k \in (DOMAIN df.rows[i]) \ {c} |-> df.rows[i][k]]]]

Labels(s) == {s[i].idx : i \in Positions(s)}

\* every label kept, whether its target is missing or not
NotNullLabels_All(y) == Labels(y)

\* y.notnull(): the labels whose target is not missing
NotNullLabels(y) == {c.idx : c \in {x \in Range(y) : ~IsNaN(x.v)}}

\* X[mask], y[mask]
SelectRows(df, keep) == [df EXCEPT !.rows = SelectSeq2(@, keep)]

CeilDiv(a, b) == (a + b - 1) \div b

Classes(y) == {c.v : c \in Range(y)}

Members(y, k) == {c.idx : c \in {x \in Range(y) : x.v = k}}

\* np.bincount(y_indices)
ClassCounts(y) == [k \in Classes(y) |-> Cardinality(Members(y, k))]

RECURSIVE SumFn(_)
SumFn(f) ==
  IF DOMAIN f = {} THEN 0
  ELSE LET k == CHOOSE x \in DOMAIN f : TRUE
       IN  f[k] + SumFn([j \in (DOMAIN f) \ {k} |-> f[j]])

\* the draws given to the classes in their order, whatever their shares
approximate_mode_InOrder(class_counts, n_draws) ==
  {[k \in DOMAIN class_counts |->
      LET before == SumFn([j \in {x \in DOMAIN class_counts : IntOf(x) < IntOf(k)}
                             |-> class_counts[j]])
          left == IF n_draws > before THEN n_draws - before ELSE 0
      IN  IF class_counts[k] < left THEN class_counts[k] ELSE left]}

\* sklearn's _approximate_mode: n_draws shared among the classes in
\* proportion to their counts, the rows left after rounding down going to
\* the classes with the largest remainders, ties broken by the generator
approximate_mode(class_counts, n_draws) ==
  LET total == SumFn(class_counts)
      floored == [k \in DOMAIN class_counts |-> (class_counts[k] * n_draws) \div total]
      remainder == [k \in DOMAIN class_counts |-> (class_counts[k] * n_draws) % total]
      need_to_add == n_draws - SumFn(floored)
  IN  {[k \in DOMAIN class_counts |-> floored[k] + add[k]] :
         add \in {a \in [DOMAIN class_counts -> {0, 1}] :
                    /\ SumFn(a) = need_to_add
                    /\ \A k \in DOMAIN a : \A j \in DOMAIN a :
                         (a[k] = 1 /\ a[j] = 0) => remainder[k] >= remainder[j]}}

\* both stages taking 30% of the rows they are given: the pool not halved
TestSize_ThreeTenths(y, num, den) == CeilDiv(3 * Len(y), 10)

\* the sizes of the two sides: n_test = ceil(test_size * n), n_train = n - n_test
TestSize(y, num, den) == CeilDiv(num * Len(y), den)
TrainSize(y, num, den) == Len(y) - TestSize(y, num, den)

\* train_test_split(..., stratify=y) raises ValueError
SplitRejected(y, num, den) ==
  \/ TrainSize(y, num, den) = 0
  \/ \E k \in Classes(y) : ClassCounts(y)[k] < 2
  \/ TrainSize(y, num, den) < Cardinality(Classes(y))
  \/ TestSize(y, num, den) < Cardinality(Classes(y))

\* the test side drawn among all the rows
TestCandidates_All(y, train) == Labels(y)

\* the rows the test side is drawn from: those not drawn for the train side
TestCandidates(y, train) == Labels(y) \ train

\* the subsets of S holding alloc[k] rows of every class k
Draws(y, S, alloc) ==
  {T \in SUBSET S : \A k \in DOMAIN alloc : Cardinality(T \cap Members(y, k)) = alloc[k]}

\* the outcomes of train_test_split(X, y, test_size=num/den, random_state=42,
\* stratify=y): the index labels of the two sides.  The seeded generator's
\* permutation is not reproduced: every draw with the class allocation of
\* StratifiedShuffleSplit is an outcome.
SplitOutcomes(y, num, den) ==
  UNION { UNION { { [train |-> T, test |-> U] :
                      U \in UNION { Draws(y, TestCandidates(y, T), t_i) :
                                    t_i \in approximate_mode(
                                              [k \in Classes(y) |-> ClassCounts(y)[k] - n_i[k]],
                                              TestSize(y, num, den)) } } :
                  T \in Draws(y, Labels(y), n_i) } :
          n_i \in approximate_mode(ClassCounts(y), TrainSize(y, num, den)) }

\* random_state=42 in both train_test_split calls
random_state == 42

\* no random_state given: every call draws from fresh entropy
SeededOutcomes_Unseeded(memo, call, outcomes) == outcomes

\* the draws a call can get from RandomState(seed): a generator seeded with
\* the same number gives the same draw for the same call, so the draw of an
\* earlier identical call is the only one; which draw it is the first time is
\* left open
SeededOutcomes(memo, call, outcomes) ==
  IF call \in DOMAIN memo THEN {memo[call]} ELSE outcomes

\* s.reset_index(drop=True)
ResetSeries(s) == [i \in Positions(s) |-> [idx |-> i - 1, v |-> s[i].v]]

\* the features joined to the targets under the partition's own index labels
ResetIndex_Keep(df) == df

\* df.reset_index(drop=True)
ResetIndex(df) == Frame(df.cols, df.rows)

\* pd.concat([df, s], axis=1), s named c: joined on the index labels of both;
\* a label missing from one side gets NaN there
Concat(df, s, c) ==
  LET extra == SelectSeq2(s, Labels(s) \ Labels(df.rows))
  IN  [cols |-> Append(df.cols, c),
       rows |-> [i \in Positions(df.rows) |-> (c :> At(s, df.rows[i].idx)) @@ df.rows[i]]
                \o [i \in Positions(extra) |->
                      (c :> extra[i].v) @@ ("idx" :> extra[i].idx)
                        @@ [k \in Range(df.cols) |-> NaN]]]

FeInit ==
  /\ fs \in {<<>>} \cup {(InputPath :> f) : f \in LabelledFiles}
  /\ fe = <<>>
  /\ fe_pc = "load"
  /\ seeded = <<>>
  /\ ml = <<>>
  /\ ml_pc = "load"
  /\ inference = <<>>
  /\ portal = <<>>
  /\ etl = <<>>
  /\ etl_pc = "idle"
  /\ eng_heap = <<>>
  /\ eng_input = Frame(<<>>, <<>>)
  /\ eng_t = 0
  /\ eng_arg = 0
  /\ eng_before = Frame(<<>>, <<>>)
  /\ eng_r = 0
  /\ eng_pc = "idle"

\* Step 1: df = pd.read_csv("chicago_crimes_latest_transformed.csv")
FeLoad ==
  /\ fe_pc = "load"
  /\ IF InputPath \in DOMAIN fs
     THEN /\ fe' = ("df" :> read_csv(fs[InputPath])) @@ fe
          /\ fe_pc' = "split"
     ELSE /\ fe_pc' = "FileNotFoundError"
          /\ UNCHANGED fe
  /\ UNCHANGED <<fs, seeded, mlVars, etlVars, engVars>>

\* Steps 2 and 3: X, y; rows with a missing target dropped; train against a
\* 30% pool; the pool halved into validation and test
FeSplit ==
  /\ fe_pc = "split"
  /\ LET keep == NotNullLabels(Col(fe.df, "Risk"))
         X == SelectRows(Drop(fe.df, "Risk"), keep)
         y == SelectSeq2(Col(fe.df, "Risk"), keep)
         g0 == ("X" :> X) @@ ("y" :> y) @@ fe
     IN  IF SplitRejected(y, 3, 10)
         THEN /\ fe' = g0
              /\ fe_pc' = "ValueError"
              /\ UNCHANGED seeded
         ELSE \E o1 \in SeededOutcomes(seeded, <<random_state, y, 3, 10>>,
                                       SplitOutcomes(y, 3, 10)) :
                LET y_temp == SelectSeq2(y, o1.test)
                    g1 == ("X_train" :> SelectRows(X, o1.train))
                            @@ ("X_temp" :> SelectRows(X, o1.test))
                            @@ ("y_train" :> SelectSeq2(y, o1.train))
                            @@ ("y_temp" :> y_temp) @@ g0
                    s1 == (<<random_state, y, 3, 10>> :> o1) @@ seeded
                IN  IF SplitRejected(y_temp, 1, 2)
                    THEN /\ fe' = g1
                         /\ fe_pc' = "ValueError"
                         /\ seeded' = s1
                    ELSE \E o2 \in SeededOutcomes(s1, <<random_state, y_temp, 1, 2>>,
                                                  SplitOutcomes(y_temp, 1, 2)) :
                           /\ fe' = ("X_val" :> SelectRows(g1.X_temp, o2.train))
                                      @@ ("X_test" :> SelectRows(g1.X_temp, o2.test))
                                      @@ ("y_val" :> SelectSeq2(y_temp, o2.train))
                                      @@ ("y_test" :> SelectSeq2(y_temp, o2.test)) @@ g1
                           /\ fe_pc' = "engineer"
                           /\ seeded' = (<<random_state, y_temp, 1, 2>> :> o2) @@ s1
  /\ UNCHANGED <<fs, mlVars, etlVars, engVars>>

\* Step 4: engineer_features on a copy of each partition (the partitions
\* X_train, X_val and X_test keep their content)
FeEngineer ==
  /\ fe_pc = "engineer"
  /\ fe' = ("X_train_fe" :> engineer_features(fe.X_train))
             @@ ("X_val_fe" :> engineer_features(fe.X_val))
             @@ ("X_test_fe" :> engineer_features(fe.X_test)) @@ fe
  /\ fe_pc' = "save"
  /\ UNCHANGED <<fs, seeded, mlVars, etlVars, engVars>>

\* the last cell labelling every partition again from its own median
FeSave_Relabel ==
  /\ fe_pc = "save"
  /\ LET train_df == WithRisk(ResetIndex(fe.X_train_fe), median(Col(fe.X_train_fe, "CrimeCount")))
         val_df == WithRisk(ResetIndex(fe.X_val_fe), median(Col(fe.X_val_fe, "CrimeCount")))
         test_df == WithRisk(ResetIndex(fe.X_test_fe), median(Col(fe.X_test_fe, "CrimeCount")))
     IN  /\ fe' = ("train_df" :> train_df) @@ ("val_df" :> val_df)
                    @@ ("test_df" :> test_df) @@ fe
         /\ fs' = (TrainPath :> to_csv(train_df)) @@ (ValPath :> to_csv(val_df))
                    @@ (TestPath :> to_csv(test_df)) @@ fs
  /\ fe_pc' = "done"
  /\ UNCHANGED <<seeded, mlVars, etlVars, engVars>>

\* Step 5: features and targets recombined on a fresh index, written as CSV
FeSave ==
  /\ fe_pc = "save"
  /\ LET train_df == Concat(ResetIndex(fe.X_train_fe), ResetSeries(fe.y_train), "Risk")
         val_df == Concat(ResetIndex(fe.X_val_fe), ResetSeries(fe.y_val), "Risk")
         test_df == Concat(ResetIndex(fe.X_test_fe), ResetSeries(fe.y_test), "Risk")
     IN  /\ fe' = ("train_df" :> train_df) @@ ("val_df" :> val_df)
                    @@ ("test_df" :> test_df) @@ fe
         /\ fs' = (TrainPath :> to_csv(train_df)) @@ (ValPath :> to_csv(val_df))
                    @@ (TestPath :> to_csv(test_df)) @@ fs
  /\ fe_pc' = "done"
  /\ UNCHANGED <<seeded, mlVars, etlVars, engVars>>

\* FeatureEngineering_Original, last cell: the same recombination, but the
\* validation and test features keep the index labels of their partition
\* while the targets are re-indexed (the cells before are those of the
\* current notebook, g is the namespace they leave)
OriginalDatasets(g) ==
  [train |-> to_csv(Concat(ResetIndex(g.X_train_fe), ResetSeries(g.y_train), "Risk")),
   val |-> to_csv(Concat(g.X_val_fe, ResetSeries(g.y_val), "Risk")),
   test |-> to_csv(Concat(g.X_test_fe, ResetSeries(g.y_test), "Risk"))]

\* The pipeline notebook's loading cell: the three engineered datasets are
\* read, rows without a target dropped, features and target separated
MlLoad ==
  /\ ml_pc = "load"
  /\ IF {TrainPath, ValPath, TestPath} \subseteq DOMAIN fs
     THEN LET train_df == dropna(read_csv(fs[TrainPath]), {"Risk"})
              val_df == dropna(read_csv(fs[ValPath]), {"Risk"})
              test_df == dropna(read_csv(fs[TestPath]), {"Risk"})
          IN  /\ ml' = ("train_df" :> train_df) @@ ("val_df" :> val_df)
                         @@ ("test_df" :> test_df)
                         @@ ("X_train" :> Drop(train_df, "Risk"))
                         @@ ("y_train" :> Col(train_df, "Risk"))
                         @@ ("X_val" :> Drop(val_df, "Risk"))
                         @@ ("y_val" :> Col(val_df, "Risk"))
                         @@ ("X_test" :> Drop(test_df, "Risk"))
                         @@ ("y_test" :> Col(test_df, "Risk")) @@ ml
              /\ ml_pc' = "loaded"
     ELSE /\ ml_pc' = "FileNotFoundError"
          /\ UNCHANGED ml
  /\ UNCHANGED <<fs, inference, feVars, etlVars, engVars>>

\* the notebook run again from its first cell in the same kernel: the names
\* bound by the earlier run stay bound until a cell assigns them again
FeRerun ==
  /\ fe_pc = "done"
  /\ fe_pc' = "load"
  /\ UNCHANGED <<fe, fs, seeded, mlVars, etlVars, engVars>>

FeNext ==
  \/ FeLoad
  \/ FeSplit
  \/ FeEngineer
  \/ FeSave
  \/ FeRerun
  \/ MlLoad

SpecFE == FeInit /\ [][FeNext]_vars

(***************************************************************************)
(* The pipeline notebook: build and fit, evaluate, save; a later load      *)
(***************************************************************************)
PipelinePath == "../model/safety_risk_pipeline.pk1"

EngineeredHeader ==
  AggregateHeader \o <<"CrimeDensity", "ViolentRatio", "DistanceFromCenter">> \o <<"Risk">>

\* rows of an engineered dataset on disk
EngineeredPatterns ==
  << [latitude |-> F(1), longitude |-> F(2), CrimeCount |-> F(1), ViolentCount |-> F(0),
      CrimeDensity |-> F(1), ViolentRatio |-> F(0), DistanceFromCenter |-> F(3), Risk |-> F(0)],
     [latitude |-> F(2), longitude |-> F(1), CrimeCount |-> F(3), ViolentCount |-> F(2),
      CrimeDensity |-> F(2), ViolentRatio |-> F(1), DistanceFromCenter |-> F(1), Risk |-> F(1)],
     [latitude |-> NaN, longitude |-> F(2), CrimeCount |-> F(1), ViolentCount |-> NaN,
      CrimeDensity |-> F(0), ViolentRatio |-> F(0), DistanceFromCenter |-> F(0), Risk |-> F(0)] >>

\* the engineered datasets of at most n rows
EngineeredFiles(n) ==
  UNION {{[cols |-> EngineeredHeader, rows |-> [i \in 1..m |-> EngineeredPatterns[q[i]]]] :
            q \in [1..m -> Positions(EngineeredPatterns)]} : m \in 0..n}

\* Pipeline([("imputer", SimpleImputer(strategy="constant", fill_value=0)),
\*           ("scaler", StandardScaler()), ("classifier", XGBClassifier(...))])
NewPipeline ==
  [imputer |-> [fitted |-> FALSE, fill_value |-> F(0), statistics_ |-> <<>>],
   scaler |-> [fitted |-> FALSE, mean_ |-> <<>>, scale_ |-> <<>>],
   classifier |-> [fitted |-> FALSE, booster |-> <<>>]]

\* the matrix of a DataFrame: one sequence of cells per row, in column order
Matrix(X) == [i \in Positions(X.rows) |-> [j \in Positions(X.cols) |-> X.rows[i][X.cols[j]]]]

\* SimpleImputer.fit: the constant fill value for every column
ImputerFit(imp, A) ==
  [imp EXCEPT !.fitted = TRUE, !.statistics_ = [j \in Positions(A[1]) |-> imp.fill_value]]

\* SimpleImputer.transform: missing cells replaced by the column's statistic
ImputerTransform(imp, A) ==
  [i \in Positions(A) |-> [j \in Positions(A[i]) |->
     IF IsNaN(A[i][j]) THEN imp.statistics_[j] ELSE A[i][j]]]

RECURSIVE SumInts(_)
SumInts(q) == IF q = <<>> THEN 0 ELSE q[1] + SumInts(Tail(q))

\* the cells of column j that are not missing, as integers
Known(A, j) == SelectSeq([i \in Positions(A) |-> A[i][j]], LAMBDA c : ~IsNaN(c))
KnownInts(A, j) == [i \in Positions(Known(A, j)) |-> IntOf(Known(A, j)[i])]

\* StandardScaler.fit: per column the mean and the standard deviation of the
\* cells that are not missing; a column of zero variance gets the scale 1
ColumnMean(A, j) ==
  IF KnownInts(A, j) = <<>> THEN NaN
  ELSE Div(F(SumInts(KnownInts(A, j))), F(Len(KnownInts(A, j))))

ColumnScale(A, j) ==
  LET q == KnownInts(A, j)
      n == Len(q)
      s == SumInts(q)
      ss == SumInts([i \in Positions(q) |-> q[i] * q[i]])
  IN  IF n = 0 THEN NaN
      ELSE IF n * ss - s * s = 0 THEN F(1)
      ELSE Sqrt(Div(F(n * ss - s * s), F(n * n)))

ScalerFit(sc, A) ==
  [sc EXCEPT !.fitted = TRUE,
             !.mean_ = [j \in Positions(A[1]) |-> ColumnMean(A, j)],
             !.scale_ = [j \in Positions(A[1]) |-> ColumnScale(A, j)]]

\* StandardScaler.transform: (x - mean) / scale, kept as the pair of the
\* difference x - mean (a reduced fraction) and the scale
ScalerTransform(sc, A) ==
  [i \in Positions(A) |-> [j \in Positions(A[i]) |->
     IF IsNaN(A[i][j]) \/ IsNaN(sc.mean_[j]) THEN [diff |-> NaN, scale |-> sc.scale_[j]]
     ELSE [diff |-> Div(F(IntOf(A[i][j]) * sc.mean_[j].d[2] - sc.mean_[j].s * sc.mean_[j].n[2]),
                        F(sc.mean_[j].d[2])),
           scale |-> sc.scale_[j]]]]

\* The boosted trees are not reproduced: a fitted classifier is a threshold
\* rule on one scaled feature (column j: label high above the column's
\* training mean, label low otherwise), any of which fit may produce.
Boosters == [j : {1, 3}, low : {0}, high : {0, 1}]

\* XGBClassifier.predict of one scaled row
BoosterLabel(b, z) ==
  IF ~IsNaN(z[b.j].diff) /\ z[b.j].diff.s > 0 THEN F(b.high) ELSE F(b.low)

\* the targets XGBClassifier.fit accepts: the classes are 0 .. k-1
ValidClasses(y) == {IntOf(c.v) : c \in Range(y)} \in {{0}, {0, 1}}

\* the fit run on the steps in the order scaler, imputer, classifier
PipelineFit_ScalerFirst(p, X, y, b, strict) ==
  IF X.rows = <<>> THEN [error |-> "ValueError", pipeline |-> p]
  ELSE LET sc == ScalerFit(p.scaler, Matrix(X))
           imp == ImputerFit(p.imputer, ScalerTransform(sc, Matrix(X)))
           fitted == [p EXCEPT !.imputer = imp, !.scaler = sc]
       IN  IF strict /\ ~ValidClasses(y) THEN [error |-> "ValueError", pipeline |-> fitted]
           ELSE [error |-> "",
                 pipeline |-> [fitted EXCEPT !.classifier = [fitted |-> TRUE, booster |-> b]]]

\* pipeline.fit(X, y): the imputer is fitted on X and transforms it, the
\* scaler is fitted on the imputed matrix and transforms it, the classifier
\* is fitted on the result.  A step that raises leaves the steps before it
\* fitted.  b is the classifier the training produces; strict tells whether
\* the installed xgboost rejects targets whose classes are not 0 .. k-1.
PipelineFit(p, X, y, b, strict) ==
  IF X.rows = <<>> THEN [error |-> "ValueError", pipeline |-> p]
  ELSE LET imp == ImputerFit(p.imputer, Matrix(X))
           sc == ScalerFit(p.scaler, ImputerTransform(imp, Matrix(X)))
           fitted == [p EXCEPT !.imputer = imp, !.scaler = sc]
       IN  IF strict /\ ~ValidClasses(y) THEN [error |-> "ValueError", pipeline |-> fitted]
           ELSE [error |-> "",
                 pipeline |-> [fitted EXCEPT !.classifier = [fitted |-> TRUE, booster |-> b]]]

\* a pipeline that answers the low label when it is not fitted
PipelinePredict_Default(p, X) ==
  [error |-> "",
   labels |-> IF p.imputer.fitted /\ p.scaler.fitted /\ p.classifier.fitted /\ X.rows # <<>>
              THEN LET Z == ScalerTransform(p.scaler, ImputerTransform(p.imputer, Matrix(X)))
                   IN  [i \in Positions(Z) |-> BoosterLabel(p.classifier.booster, Z[i])]
              ELSE [i \in Positions(X.rows) |-> F(0)]]

\* pipeline.predict(X): imputer.transform, scaler.transform, then
\* classifier.predict; a step that is not fitted raises NotFittedError, a
\* matrix without rows raises ValueError
PipelinePredict(p, X) ==
  IF ~p.imputer.fitted THEN [error |-> "NotFittedError", labels |-> <<>>]
  ELSE IF X.rows = <<>> THEN [error |-> "ValueError", labels |-> <<>>]
  ELSE IF ~p.scaler.fitted \/ ~p.classifier.fitted
       THEN [error |-> "NotFittedError", labels |-> <<>>]
  ELSE LET Z == ScalerTransform(p.scaler, ImputerTransform(p.imputer, Matrix(X)))
       IN  [error |-> "", labels |-> [i \in Positions(Z) |-> BoosterLabel(p.classifier.booster, Z[i])]]

\* the file written without the fitted state of the steps
pickle_Unfitted(p) ==
  <<"Pipeline", <<"imputer", NewPipeline.imputer>>, <<"scaler", NewPipeline.scaler>>,
    <<"classifier", NewPipeline.classifier>>>>

\* joblib.dump(pipeline, path): the content of the file, the steps by name
\* with their parameters and fitted state
pickle(p) ==
  <<"Pipeline", <<"imputer", p.imputer>>, <<"scaler", p.scaler>>,
    <<"classifier", p.classifier>>>>

\* joblib.load(path): the object rebuilt from the content of the file
unpickle(content) ==
  [imputer |-> content[2][2], scaler |-> content[3][2], classifier |-> content[4][2]]

MlInit ==
  /\ fs \in {<<>>} \cup
            {(TrainPath :> a) @@ (ValPath :> b) @@ (TestPath :> c) :
               a \in EngineeredFiles(MaxTrainRows),
               b \in EngineeredFiles(MaxEvalRows), c \in EngineeredFiles(MaxEvalRows)}
  /\ ml = <<>>
  /\ ml_pc = "load"
  /\ inference = <<>>
  /\ fe = <<>>
  /\ fe_pc = "idle"
  /\ seeded = <<>>
  /\ portal = <<>>
  /\ etl = <<>>
  /\ etl_pc = "idle"
  /\ eng_heap = <<>>
  /\ eng_input = Frame(<<>>, <<>>)
  /\ eng_t = 0
  /\ eng_arg = 0
  /\ eng_before = Frame(<<>>, <<>>)
  /\ eng_r = 0
  /\ eng_pc = "idle"

\* the cell that builds the pipeline and fits it on the training data; when
\* fit raises, the name pipeline stays bound to the pipeline as fit left it
MlFit ==
  /\ ml_pc = "loaded"
  /\ \E b \in Boosters : \E strict \in BOOLEAN :
       LET r == PipelineFit(NewPipeline, ml.X_train, ml.y_train, b, strict)
       IN  /\ ml' = ("pipeline" :> r.pipeline) @@ ml
           /\ ml_pc' = IF r.error = "" THEN "validate" ELSE "fit_failed"
  /\ UNCHANGED <<fs, inference, feVars, etlVars, engVars>>

\* the validation cell fitting the pipeline again on the data it predicts
MlValidate_Refitting ==
  /\ ml_pc \in {"validate", "fit_failed"}
  /\ \E b \in Boosters :
       LET f == PipelineFit(ml.pipeline, ml.X_val, ml.y_val, b, FALSE)
           r == PipelinePredict(f.pipeline, ml.X_val)
       IN  IF r.error = ""
           THEN /\ ml' = ("y_val_pred" :> r.labels) @@ ("pipeline" :> f.pipeline) @@ ml
                /\ ml_pc' = "test"
           ELSE /\ ml_pc' = r.error
                /\ UNCHANGED ml
  /\ UNCHANGED <<fs, inference, feVars, etlVars, engVars>>

\* y_val_pred = pipeline.predict(X_val), run after the fit cell whether it
\* completed or raised
MlValidate ==
  /\ ml_pc \in {"validate", "fit_failed"}
  /\ LET r == PipelinePredict(ml.pipeline, ml.X_val)
     IN  IF r.error = ""
         THEN /\ ml' = ("y_val_pred" :> r.labels) @@ ml
              /\ ml_pc' = "test"
         ELSE /\ ml_pc' = r.error
              /\ UNCHANGED ml
  /\ UNCHANGED <<fs, inference, feVars, etlVars, engVars>>

\* y_test_pred = pipeline.predict(X_test)
MlTest ==
  /\ ml_pc = "test"
  /\ LET r == PipelinePredict(ml.pipeline, ml.X_test)
     IN  IF r.error = ""
         THEN /\ ml' = ("y_test_pred" :> r.labels) @@ ml
              /\ ml_pc' = "save"
         ELSE /\ ml_pc' = r.error
              /\ UNCHANGED ml
  /\ UNCHANGED <<fs, inference, feVars, etlVars, engVars>>

\* the save cell run right after the fit cell
MlSave_AfterFit ==
  /\ ml_pc \in {"validate", "test", "save"}
  /\ fs' = (PipelinePath :> pickle(ml.pipeline)) @@ fs
  /\ ml_pc' = "saved"
  /\ UNCHANGED <<ml, inference, feVars, etlVars, engVars>>

\* joblib.dump(pipeline, "../model/safety_risk_pipeline.pk1")
MlSave ==
  /\ ml_pc = "save"
  /\ fs' = (PipelinePath :> pickle(ml.pipeline)) @@ fs
  /\ ml_pc' = "saved"
  /\ UNCHANGED <<ml, inference, feVars, etlVars, engVars>>

\* a later session loads the saved file: pipeline = joblib.load(path)
Reload ==
  /\ PipelinePath \in DOMAIN fs
  /\ inference = <<>>
  /\ inference' = ("pipeline" :> unpickle(fs[PipelinePath]))
  /\ UNCHANGED <<fs, ml, ml_pc, feVars, etlVars, engVars>>

MlNext ==
  \/ MlLoad
  \/ MlFit
  \/ MlValidate
  \/ MlTest
  \/ MlSave
  \/ Reload

SpecML == MlInit /\ [][MlNext]_vars

SpecEng == EngInit /\ [][EngNext]_vars

(***************************************************************************)
(* Properties of engineer_features (SpecEng)                               *)
(***************************************************************************)
EngCalled == eng_pc # "start"
EngResult == eng_heap[eng_r].rows
EngInput == eng_input.rows

\* latitude * longitude is exactly 0
ProductIsZero(row) ==
  /\ ~IsNaN(row.latitude) /\ ~IsNaN(row.longitude)
  /\ (row.latitude = F(0) \/ row.longitude = F(0))

\* C5 as stated: a row whose CrimeCount is 0, and a row whose
\* latitude * longitude is 0, gets CrimeDensity exactly 0.
C5_DensityZeroForZeroCountOrZeroProduct ==
  EngCalled =>
    \A i \in Positions(EngResult) :
      (EngInput[i].CrimeCount = F(0) \/ ProductIsZero(EngInput[i]))
        => EngResult[i].CrimeDensity = F(0)

\* C5 amended: a row whose CrimeCount is 0 gets CrimeDensity exactly 0; a row
\* whose latitude * longitude is 0 has its divisor replaced by 1 and gets
\* CrimeDensity = CrimeCount (0 when CrimeCount is missing); CrimeDensity is
\* never NaN.
C5_DensityZeroCountAndZeroProduct ==
  EngCalled =>
    \A i \in Positions(EngResult) :
      /\ EngInput[i].CrimeCount = F(0) => EngResult[i].CrimeDensity = F(0)
      /\ ProductIsZero(EngInput[i]) =>
           EngResult[i].CrimeDensity =
             (IF IsNaN(EngInput[i].CrimeCount) THEN F(0) ELSE EngInput[i].CrimeCount)
      /\ ~IsNaN(EngResult[i].CrimeDensity)

\* a call has processed a row with CrimeCount 0 and a row with a zero product
\* and the CrimeCount MaxCount
C5_Witness ==
  /\ EngCalled
  /\ \E i \in Positions(EngResult) :
       EngInput[i].CrimeCount = F(0) /\ EngResult[i].CrimeDensity = F(0)
  /\ \E i \in Positions(EngResult) :
       ProductIsZero(EngInput[i]) /\ EngInput[i].CrimeCount = F(MaxCount)
         /\ EngResult[i].CrimeDensity = F(MaxCount)

\* the quotient CrimeCount / |latitude * longitude| of one row, the divisor
\* replaced by 1 when the product is 0, and 0 when the quotient is undefined
ExpectedDensity(row) ==
  LET p == Abs(Mul(row.latitude, row.longitude))
      q == Div(row.CrimeCount, IF p = F(0) THEN F(1) ELSE p)
  IN  IF IsNaN(q) THEN F(0) ELSE q

\* C6: CrimeDensity is CrimeCount / |latitude * longitude|, the divisor
\* replaced by 1 when the product is exactly 0, and 0 when that quotient is
\* undefined; it is never undefined, negative or infinite.
C6_DensityFormula ==
  EngCalled =>
    \A i \in Positions(EngResult) :
      /\ EngResult[i].CrimeDensity = ExpectedDensity(EngInput[i])
      /\ EngResult[i].CrimeDensity.k = "q"
      /\ EngResult[i].CrimeDensity.s >= 0

\* a call has processed a row with a non-zero product and count, a row with
\* a zero product, and a row with a missing coordinate
C6_Witness ==
  /\ EngCalled
  /\ \E i \in Positions(EngResult) :
       /\ EngInput[i].CrimeCount = F(2)
       /\ EngInput[i].latitude = F(city_center_lat)
       /\ EngInput[i].longitude = F(city_center_lon)
       /\ EngResult[i].CrimeDensity.d = BigMul(city_center_lat, -city_center_lon)
       /\ EngResult[i].CrimeDensity.n = <<0, 2>>
  /\ \E i \in Positions(EngResult) :
       IsNaN(EngInput[i].latitude) /\ EngResult[i].CrimeDensity = F(0)

\* C7 as stated: a row with CrimeCount = 0 gets ViolentRatio exactly 0
\* whatever its other fields; a row with CrimeCount > 0 gets
\* ViolentCount / CrimeCount.
C7_RatioZeroForZeroCount ==
  EngCalled =>
    \A i \in Positions(EngResult) :
      /\ EngInput[i].CrimeCount = F(0) => EngResult[i].ViolentRatio = F(0)
      /\ (~IsNaN(EngInput[i].CrimeCount) /\ EngInput[i].CrimeCount.s > 0) =>
           EngResult[i].ViolentRatio = Div(EngInput[i].ViolentCount, EngInput[i].CrimeCount)

\* C7 amended: a row with CrimeCount = 0 has its divisor replaced by 1 and
\* gets ViolentRatio = ViolentCount, which is 0 when ViolentCount is 0; a row
\* with CrimeCount > 0 gets ViolentCount / CrimeCount; in both cases a missing
\* ViolentCount gives 0, and ViolentRatio is never NaN.
C7_RatioFormula ==
  EngCalled =>
    \A i \in Positions(EngResult) :
      LET cc == EngInput[i].CrimeCount
          vc == EngInput[i].ViolentCount
          vr == EngResult[i].ViolentRatio
      IN  /\ (cc = F(0) /\ ~IsNaN(vc)) => vr = vc
          /\ (~IsNaN(cc) /\ cc.s > 0 /\ ~IsNaN(vc)) => vr = Div(vc, cc)
          /\ (~IsNaN(cc) /\ IsNaN(vc)) => vr = F(0)
          /\ ~IsNaN(vr)

\* a call has processed a row with CrimeCount 0 and ViolentCount 0, and a row
\* with ViolentCount 1 of CrimeCount 2
C7_Witness ==
  /\ EngCalled
  /\ \E i \in Positions(EngResult) :
       EngInput[i].CrimeCount = F(0) /\ EngInput[i].ViolentCount = F(0)
         /\ ~IsNaN(EngInput[i].latitude) /\ EngResult[i].ViolentRatio = F(0)
  /\ \E i \in Positions(EngResult) :
       EngInput[i].CrimeCount = F(2) /\ EngInput[i].ViolentCount = F(1)
         /\ EngResult[i].ViolentRatio = [k |-> "q", s |-> 1, n |-> <<0, 1>>, d |-> <<0, 2>>]

AggregateColumns == {"latitude", "longitude", "CrimeCount", "ViolentCount"}

SameOn(cols, r1, r2) == \A c \in cols : r1[c] = r2[c]

\* C8: a second application to the first one's output leaves CrimeDensity,
\* ViolentRatio and DistanceFromCenter as the first application set them, and
\* no application changes latitude, longitude, CrimeCount, ViolentCount or
\* the index of any row.
C8_Idempotent ==
  /\ EngCalled =>
       /\ Len(EngResult) = Len(EngInput)
       /\ \A i \in Positions(EngResult) :
            SameOn(AggregateColumns \cup {"idx"}, EngResult[i], EngInput[i])
  /\ eng_pc = "reapplied" =>
       /\ Len(eng_before.rows) = Len(EngResult)
       /\ \A i \in Positions(EngResult) : SameOn(FeatureColumns, EngResult[i], eng_before.rows[i])
       /\ eng_heap[eng_r] = eng_before

\* the function was applied twice to a table holding a zero count, a zero
\* product and a missing coordinate
C8_Witness ==
  /\ eng_pc = "reapplied"
  /\ Len(EngResult) = 2
  /\ EngInput[1].CrimeCount = F(0)
  /\ EngInput[1].latitude = F(0)
  /\ IsNaN(EngInput[2].latitude)
  /\ EngResult[1].DistanceFromCenter.k = "root"

\* C9 as stated: a call leaves the table passed to it unchanged and returns a
\* separate table.
C9_ArgumentUnchanged ==
  (eng_pc \in {"applied", "site"}) => (eng_heap[eng_arg] = eng_before /\ eng_r # eng_arg)

\* C9 amended: engineer_features adds the three columns to the table passed
\* to it and returns that same table; at the notebook's call sites the table
\* passed is a fresh copy, so the partition itself is unchanged, and the
\* result is another object holding the partition's rows, in order, with
\* exactly the three feature fields added.
C9_InPlaceOnCopy ==
  /\ EngCalled =>
       /\ eng_r = eng_arg
       /\ eng_heap[eng_r].cols = eng_input.cols \o <<"CrimeDensity", "ViolentRatio", "DistanceFromCenter">>
       /\ Len(EngResult) = Len(EngInput)
       /\ \A i \in Positions(EngResult) :
            /\ DOMAIN EngResult[i] = DOMAIN EngInput[i] \cup FeatureColumns
            /\ SameOn(DOMAIN EngInput[i], EngResult[i], EngInput[i])
  /\ eng_pc \in {"applied", "site"} => eng_heap[eng_arg] # eng_before
  /\ eng_pc = "site" =>
       /\ eng_heap[eng_t] = eng_input
       /\ eng_r # eng_t

\* the call site has run on a copy of a non-empty partition
C9_Witness ==
  /\ eng_pc = "site"
  /\ eng_arg # eng_t
  /\ Len(EngInput) = 2
  /\ DOMAIN eng_heap[eng_t].rows[1] = AggregateColumns \cup {"idx"}
  /\ DOMAIN EngResult[1] = AggregateColumns \cup {"idx"} \cup FeatureColumns

\* the Euclidean distance of one row to the reference point, a missing
\* coordinate counting as the reference coordinate
ExpectedDistance(row) ==
  LET dlat == IF IsNaN(row.latitude) THEN 0 ELSE IntOf(row.latitude) - city_center_lat
      dlon == IF IsNaN(row.longitude) THEN 0 ELSE IntOf(row.longitude) - city_center_lon
  IN  Sqrt(Add(Square(F(dlat)), Square(F(dlon))))

\* C10: DistanceFromCenter is the Euclidean distance to (41.8781, -87.6298),
\* 0 for a row at the reference point; a missing coordinate is replaced by
\* the reference coordinate and adds 0; the result is never NaN.
C10_DistanceFormula ==
  EngCalled =>
    \A i \in Positions(EngResult) :
      /\ EngResult[i].DistanceFromCenter = ExpectedDistance(EngInput[i])
      /\ ~IsNaN(EngResult[i].DistanceFromCenter)
      /\ (EngInput[i].latitude = F(418781) /\ EngInput[i].longitude = F(-876298))
           => EngResult[i].DistanceFromCenter = F(0)
      /\ (IsNaN(EngInput[i].latitude) /\ ~IsNaN(EngInput[i].longitude)) =>
           EngResult[i].DistanceFromCenter =
             Sqrt(Square(F(IntOf(EngInput[i].longitude) - city_center_lon)))
      /\ (IsNaN(EngInput[i].latitude) /\ IsNaN(EngInput[i].longitude)) =>
           EngResult[i].DistanceFromCenter = F(0)

\* a call has processed a row at the reference point and a row with a
\* missing latitude away from the reference longitude
C10_Witness ==
  /\ EngCalled
  /\ \E i \in Positions(EngResult) :
       EngInput[i].latitude = F(city_center_lat) /\ EngInput[i].longitude = F(city_center_lon)
         /\ EngResult[i].DistanceFromCenter = F(0)
  /\ \E i \in Positions(EngResult) :
       IsNaN(EngInput[i].latitude) /\ EngInput[i].longitude = F(0)
         /\ EngResult[i].DistanceFromCenter.k = "root"
         /\ EngResult[i].DistanceFromCenter.n = BigMul(-city_center_lon, -city_center_lon)


(***************************************************************************)
(* Properties of the label construction (SpecETL)                          *)
(***************************************************************************)
Labelled == etl_pc \in {"save", "done"}

LocationCounts == etl.location_counts.rows

\* the CrimeCount values of the labelled table in non-decreasing order
SortedCounts ==
  LET n == Len(LocationCounts)
      vals == {IntOf(r.CrimeCount) : r \in Range(LocationCounts)}
  IN  CHOOSE q \in [1..n -> vals] :
        /\ \A i \in 1..n : \A j \in 1..n : i < j => q[i] <= q[j]
        /\ \A v \in vals :
             Cardinality({i \in 1..n : q[i] = v})
               = Cardinality({i \in 1..n : IntOf(LocationCounts[i].CrimeCount) = v})

\* twice the median: the sum of the two middle values of an even number of
\* values, twice the middle value of an odd number
TwiceMedian ==
  LET n == Len(LocationCounts)
  IN  IF n % 2 = 1 THEN 2 * SortedCounts[(n + 1) \div 2]
      ELSE SortedCounts[n \div 2] + SortedCounts[n \div 2 + 1]

\* C1: every location's Risk is 1 exactly when its CrimeCount is strictly
\* greater than the median of CrimeCount over all locations (the mean of the
\* two middle values for an even number of locations) and 0 otherwise, so a
\* location tied with the median has Risk 0.
C1_RiskIffAboveMedian ==
  (Labelled /\ LocationCounts # <<>>) =>
    \A i \in Positions(LocationCounts) :
      /\ LocationCounts[i].Risk \in {F(0), F(1)}
      /\ LocationCounts[i].Risk = F(1)
           <=> 2 * IntOf(LocationCounts[i].CrimeCount) > TwiceMedian

\* an even number of locations, whose two middle values are equal: the
\* locations tied with the median have Risk 0, one above it has Risk 1
C1_Witness ==
  /\ Labelled
  /\ Len(LocationCounts) = 4
  /\ \E i \in Positions(LocationCounts) :
       /\ 2 * IntOf(LocationCounts[i].CrimeCount) = TwiceMedian
       /\ LocationCounts[i].Risk = F(0)
  /\ \E i \in Positions(LocationCounts) :
       /\ 2 * IntOf(LocationCounts[i].CrimeCount) > TwiceMedian
       /\ LocationCounts[i].Risk = F(1)

(***************************************************************************)
(* Properties of the split and of the engineered partitions (SpecFE)       *)
(***************************************************************************)
PartitionNames == {"train", "val", "test"}

SplitAccepted == fe_pc \in {"engineer", "save", "done"}

Engineered == fe_pc \in {"save", "done"}

PartX(p) == IF p = "train" THEN fe.X_train ELSE IF p = "val" THEN fe.X_val ELSE fe.X_test

PartY(p) == IF p = "train" THEN fe.y_train ELSE IF p = "val" THEN fe.y_val ELSE fe.y_test

PartFe(p) ==
  IF p = "train" THEN fe.X_train_fe ELSE IF p = "val" THEN fe.X_val_fe ELSE fe.X_test_fe

\* the index labels of the rows read from the file, with and without a target
LabelledInput == {r.idx : r \in {x \in Range(fe.df.rows) : ~IsNaN(x.Risk)}}
MissingInput == {r.idx : r \in {x \in Range(fe.df.rows) : IsNaN(x.Risk)}}

\* C2: when both splits are accepted, train, validation and test are
\* pairwise disjoint, no row occurs twice in a partition, their union is
\* exactly the set of input rows whose Risk is not missing, and every row of
\* a partition is the input row of that label with its own Risk.
C2_PartitionsCoverLabelledInput ==
  SplitAccepted =>
    /\ \A p \in PartitionNames :
         /\ Cardinality(Labels(PartX(p).rows)) = Len(PartX(p).rows)
         /\ Labels(PartY(p)) = Labels(PartX(p).rows)
         /\ Len(PartY(p)) = Len(PartX(p).rows)
    /\ \A p \in PartitionNames : \A q \in PartitionNames \ {p} :
         Labels(PartX(p).rows) \cap Labels(PartX(q).rows) = {}
    /\ UNION {Labels(PartX(p).rows) : p \in PartitionNames} = LabelledInput
    /\ \A p \in PartitionNames : \A r \in Range(PartX(p).rows) :
         \E x \in Range(fe.df.rows) :
           /\ x.idx = r.idx
           /\ \A c \in {"latitude", "longitude", "CrimeCount", "ViolentCount"} : x[c] = r[c]
           /\ At(PartY(p), r.idx) = x.Risk

\* both classes present, a row without a target in the input, and every
\* partition holding rows of both classes
C2_Witness ==
  /\ SplitAccepted
  /\ MissingInput # {}
  /\ \A p \in PartitionNames : Classes(PartY(p)) = {F(0), F(1)}

FeFrames == {"X", "X_train", "X_temp", "X_val", "X_test"}
FeTargets == {"y", "y_train", "y_temp", "y_val", "y_test"}

\* the rows of the datasets loaded by the pipeline notebook whose Risk is k
LoadedWithRisk(k) ==
  Cardinality({i \in Positions(ml.train_df.rows) : ml.train_df.rows[i].Risk = k})
  + Cardinality({i \in Positions(ml.val_df.rows) : ml.val_df.rows[i].Risk = k})
  + Cardinality({i \in Positions(ml.test_df.rows) : ml.test_df.rows[i].Risk = k})

InputWithRisk(k) == Cardinality({i \in Positions(fe.df.rows) : fe.df.rows[i].Risk = k})

\* C3: a row whose Risk is missing is in no table of the split (X, the
\* train side, the pool, validation, test), no target is missing there, and
\* the datasets loaded by the pipeline notebook hold, for each class, as many
\* rows as the input had rows of that class and no row without a target: no
\* missing label was turned into a class.
C3_MissingRiskExcluded ==
  /\ \A n \in FeFrames \cap DOMAIN fe : Labels(fe[n].rows) \cap MissingInput = {}
  /\ \A n \in FeTargets \cap DOMAIN fe :
       /\ Labels(fe[n]) \cap MissingInput = {}
       /\ \A c \in Range(fe[n]) : ~IsNaN(c.v)
  /\ ml_pc = "loaded" =>
       /\ \A k \in {F(0), F(1)} : LoadedWithRisk(k) = InputWithRisk(k)
       /\ LoadedWithRisk(NaN) = 0
       /\ Len(ml.y_train) + Len(ml.y_val) + Len(ml.y_test) = Cardinality(LabelledInput)
       /\ \A n \in {"y_train", "y_val", "y_test"} : \A c \in Range(ml[n]) : ~IsNaN(c.v)

\* the input had a row without a target and the pipeline notebook has loaded
\* the three partitions
C3_Witness ==
  /\ ml_pc = "loaded"
  /\ MissingInput # {}
  /\ Len(ml.y_train) > 0 /\ Len(ml.y_val) > 0 /\ Len(ml.y_test) > 0

\* the four aggregate fields and the three engineered features of a row
OwnFields(r) == [c \in {"latitude", "longitude", "CrimeCount", "ViolentCount"} |-> r[c]]
Features(r) == [c \in FeatureColumns |-> r[c]]

\* the engineered table of the row r taken alone, and the table holding only
\* the engineered row r
EngineeredAlone(r) == engineer_features(Frame(AggregateHeader, <<OwnFields(r)>>))
AloneEngineered(p, r) == [cols |-> PartFe(p).cols, rows |-> <<[r EXCEPT !.idx = 0]>>]

\* C4: two engineered rows with the same latitude, longitude, CrimeCount
\* and ViolentCount have the same CrimeDensity, ViolentRatio and
\* DistanceFromCenter, whichever partitions they are in, and these are the
\* features the row gets in a table of its own.
C4_FeaturesOfOwnFields ==
  Engineered =>
    /\ \A p \in PartitionNames : \A r \in Range(PartFe(p).rows) :
         EngineeredAlone(r) = AloneEngineered(p, r)
    /\ \A p \in PartitionNames : \A r \in Range(PartFe(p).rows) :
         \A q \in PartitionNames : \A o \in Range(PartFe(q).rows) :
           OwnFields(r) = OwnFields(o) => Features(r) = Features(o)

\* rows with the same four fields in train and in test, accompanied by
\* different rows: the first rows of the two partitions differ
C4_Witness ==
  /\ Engineered
  /\ \E r \in Range(fe.X_train_fe.rows) : \E o \in Range(fe.X_test_fe.rows) :
       /\ OwnFields(r) = OwnFields(o)
       /\ r.idx # fe.X_train_fe.rows[1].idx
       /\ fe.X_train_fe.rows[1].latitude # fe.X_test_fe.rows[1].latitude

(***************************************************************************)
(* Properties of the cleaning cell (SpecETL)                               *)
(***************************************************************************)
Normalized == etl_pc \in {"aggregate", "save", "done"}

\* the coordinates written as numbers, and the numbers they denote (1e-4 degree)
ParsedCoordinate ==
  (Lat1 :> F(418781)) @@ (Lat2 :> F(418784)) @@ (Lon1 :> F(-876298)) @@ (Lon2 :> F(-876300))

BothParse(rec) ==
  rec.latitude \in DOMAIN ParsedCoordinate /\ rec.longitude \in DOMAIN ParsedCoordinate

\* C15: the cleaned table holds exactly the extracted records whose latitude
\* and longitude are both numbers, once each, with the parsed values as
\* coordinates and their own date and type; a record with an absent or
\* unparseable coordinate is dropped and no cleaned row has a missing or
\* other coordinate.
C15_NormalizerKeepsParsedRecords ==
  Normalized =>
    /\ Labels(etl.df.rows) = {i - 1 : i \in {j \in Positions(etl.results) : BothParse(etl.results[j])}}
    /\ Len(etl.df.rows) = Cardinality(Labels(etl.df.rows))
    /\ \A r \in Range(etl.df.rows) :
         /\ r.latitude = ParsedCoordinate[etl.results[r.idx + 1].latitude]
         /\ r.longitude = ParsedCoordinate[etl.results[r.idx + 1].longitude]
         /\ r.primary_type = etl.results[r.idx + 1].primary_type
         /\ r.date = etl.results[r.idx + 1].date

\* a record without latitude and one with an unparseable longitude were
\* dropped, two records were kept
C15_Witness ==
  /\ Normalized
  /\ \E i \in Positions(etl.results) : etl.results[i].latitude = None
  /\ \E i \in Positions(etl.results) : etl.results[i].longitude = NotANumber
  /\ Len(etl.df.rows) = 2

\* C16: when extraction returned no record (an empty result or a failed
\* request), the cleaning cell completes with an empty table and raises no
\* error.
C16_EmptyInputEmptyOutput ==
  (etl_pc \notin {"extract", "clean"} /\ etl.results = <<>>) =>
    /\ etl_pc \in {"aggregate", "save", "done"}
    /\ etl.df.rows = <<>>

(***************************************************************************)
(* Properties of the aggregate cell (SpecETL)                              *)
(***************************************************************************)
\* C18: label construction over zero aggregate rows does not complete: the
\* aggregate cell never ends with an empty labelled table and no empty
\* labelled dataset is written.
C18_EmptyAggregateIsFatal ==
  /\ Labelled => LocationCounts # <<>>
  /\ TransformedPath \in DOMAIN fs => fs[TransformedPath].rows # <<>>

\* the categories counted as violent
ViolentCategories == {"HOMICIDE", "ASSAULT", "BATTERY", "ROBBERY", "CRIM SEXUAL ASSAULT"}

Place(r) == <<r.latitude, r.longitude>>

\* C19: the aggregate has exactly one row per distinct (latitude, longitude)
\* pair among the cleaned incidents; in each row CrimeCount is the number of
\* cleaned incidents at that pair and ViolentCount the number of those whose
\* category is HOMICIDE, ASSAULT, BATTERY, ROBBERY or CRIM SEXUAL ASSAULT.
C19_OneRowPerPlaceWithCounts ==
  Labelled =>
    /\ {Place(r) : r \in Range(LocationCounts)} = {Place(r) : r \in Range(etl.df.rows)}
    /\ Len(LocationCounts) = Cardinality({Place(r) : r \in Range(etl.df.rows)})
    /\ \A r \in Range(LocationCounts) :
         /\ r.CrimeCount
              = F(Cardinality({i \in Positions(etl.df.rows) : Place(etl.df.rows[i]) = Place(r)}))
         /\ r.ViolentCount
              = F(Cardinality({i \in Positions(etl.df.rows) :
                                 /\ Place(etl.df.rows[i]) = Place(r)
                                 /\ etl.df.rows[i].primary_type \in ViolentCategories}))

\* C20: when all locations have the same CrimeCount (a single location
\* included), the median is that count and every location has Risk 0.
C20_EqualCountsAllLowRisk ==
  (Labelled /\ LocationCounts # <<>>
     /\ \A r \in Range(LocationCounts) : r.CrimeCount = LocationCounts[1].CrimeCount) =>
    /\ etl.median_count = LocationCounts[1].CrimeCount
    /\ \A r \in Range(LocationCounts) : r.Risk = F(0)

\* two locations with two incidents each
C20_Witness ==
  /\ Labelled
  /\ Len(LocationCounts) = 2
  /\ \A r \in Range(LocationCounts) : r.CrimeCount = F(2) /\ r.Risk = F(0)

\* C17: an empty labelled dataset read by the feature-engineering notebook
\* gives three empty partitions and three empty engineered tables; the split
\* cell raises no error.
C17_EmptyDatasetEmptyPartitions ==
  (fe_pc \notin {"idle", "load", "split", "FileNotFoundError"} /\ fe.df.rows = <<>>) =>
    /\ SplitAccepted
    /\ \A p \in PartitionNames :
         /\ PartX(p).rows = <<>>
         /\ Engineered => PartFe(p).rows = <<>>

(***************************************************************************)
(* Properties of the pipeline (SpecML)                                     *)
(***************************************************************************)
FullyFitted(p) == p.imputer.fitted /\ p.scaler.fitted /\ p.classifier.fitted

\* the feature tables predictions are compared on
SampleTables ==
  {Drop(read_csv(f), "Risk") : f \in EngineeredFiles(MaxEvalRows)} \cup {ml.X_val, ml.X_test}

C12_UnfittedPredictRaises ==
  [][("pipeline" \in DOMAIN ml /\ ~FullyFitted(ml.pipeline) /\ ml_pc' # ml_pc)
       => (ml_pc' \in {"NotFittedError", "ValueError"} /\ ml' = ml)]_vars

\* predict was called on validation rows with a pipeline whose fit had raised
C12_Witness ==
  /\ ml_pc = "NotFittedError"
  /\ ml.X_val.rows # <<>>
  /\ "y_val_pred" \notin DOMAIN ml

FitCompleted == "pipeline" \in DOMAIN ml /\ FullyFitted(ml.pipeline)

\* C13: once the fit cell has bound the pipeline, no later cell changes it
\* (validation, test and save leave it as it is), and a fitted pipeline is
\* what one fit gives from the training partition alone.
C13_LearnedStateFromTrainOnly ==
  /\ [][("pipeline" \in DOMAIN ml)
          => ("pipeline" \in DOMAIN ml' /\ ml'.pipeline = ml.pipeline)]_vars
  /\ [](FitCompleted =>
          \E b \in Boosters, strict \in BOOLEAN :
            ml.pipeline = PipelineFit(NewPipeline, ml.X_train, ml.y_train, b, strict).pipeline)

\* the pipeline was saved after predicting validation and test rows that are
\* not training rows
C13_Witness ==
  /\ ml_pc = "saved"
  /\ FitCompleted
  /\ ml.X_val.rows # <<>>
  /\ ml.X_test.rows # <<>>
  /\ \A i \in DOMAIN ml.X_train.rows :
       /\ ml.X_train.rows[i] # ml.X_val.rows[1]
       /\ ml.X_train.rows[i] # ml.X_test.rows[1]

\* a cell of the training table as the classifier's rule sees it: a missing
\* value counts as the fill value 0
Filled(x) == IF IsNaN(x) THEN 0 ELSE IntOf(x)

FilledSum(X, c) == SumInts([i \in DOMAIN X.rows |-> Filled(X.rows[i][c])])

\* the label of the fitted rule for one row: the chosen column, filled, lies
\* above the mean of the filled training column
ExpectedLabel(X, i) ==
  LET b == ml.pipeline.classifier.booster
      c == X.cols[b.j]
  IN  IF Filled(X.rows[i][c]) * Len(ml.X_train.rows) > FilledSum(ml.X_train, c)
      THEN F(b.high) ELSE F(b.low)

ExpectedLabels(X) == [i \in DOMAIN X.rows |-> ExpectedLabel(X, i)]

\* C14: the scaler's means are those of the training columns with missing
\* values already filled by the imputer, and each prediction has one label
\* per row, the classifier's answer on the row filled and then scaled.
C14_StepsInOrder ==
  /\ FitCompleted =>
       \A j \in DOMAIN ml.X_train.cols :
         ml.pipeline.scaler.mean_[j]
           = Div(F(FilledSum(ml.X_train, ml.X_train.cols[j])), F(Len(ml.X_train.rows)))
  /\ ("y_val_pred" \in DOMAIN ml) =>
       /\ Len(ml.y_val_pred) = Len(ml.X_val.rows)
       /\ ml.y_val_pred = ExpectedLabels(ml.X_val)
  /\ ("y_test_pred" \in DOMAIN ml) =>
       /\ Len(ml.y_test_pred) = Len(ml.X_test.rows)
       /\ ml.y_test_pred = ExpectedLabels(ml.X_test)

\* a training column with a missing value decided the two predictions
C14_Witness ==
  /\ "y_test_pred" \in DOMAIN ml
  /\ \E i \in DOMAIN ml.X_train.rows :
       IsNaN(ml.X_train.rows[i][ml.X_train.cols[ml.pipeline.classifier.booster.j]])
  /\ ml.y_val_pred = <<F(1)>>
  /\ Len(ml.y_test_pred) = 1

(***************************************************************************)
(* Sizes and class shares of the partitions (SpecFE)                       *)
(***************************************************************************)
\* a target column of n rows, for the size computations
Rows(n) == [i \in 1..n |-> i]

\* the sizes the two train_test_split calls give for n labelled rows
StageSizes(n) ==
  LET pool == TestSize(Rows(n), 3, 10)
      test == TestSize(Rows(pool), 1, 2)
  IN  [train |-> TrainSize(Rows(n), 3, 10), val |-> TrainSize(Rows(pool), 1, 2), test |-> test]

\* size is within one row of pct percent of n
WithinOneRow(size, pct, n) == (100 * size - pct * n) \in (-100)..100

SizesWithinOneRow ==
  \A n \in 1..MaxRows :
    /\ StageSizes(n).train + StageSizes(n).val + StageSizes(n).test = n
    /\ WithinOneRow(StageSizes(n).train, 70, n)
    /\ WithinOneRow(StageSizes(n).val, 15, n)
    /\ WithinOneRow(StageSizes(n).test, 15, n)
    /\ WithinOneRow(StageSizes(n).val + StageSizes(n).test, 30, n)
    /\ StageSizes(n).test - StageSizes(n).val \in {0, 1}

\* C21: when both splits are accepted, the partitions have the sizes of the
\* two stages (train against a pool, the pool halved), which add up to the
\* number of labelled rows; for every number of rows up to MaxRows these
\* sizes are within one row of 70%, 15% and 15%, and 100 rows give 70/15/15.
C21_SplitSizes ==
  /\ SplitAccepted =>
       /\ Len(fe.y_train) + Len(fe.y_val) + Len(fe.y_test) = Len(fe.y)
       /\ Len(fe.y_temp) = Len(fe.y_val) + Len(fe.y_test)
       /\ [p \in PartitionNames |-> Len(PartX(p).rows)] = StageSizes(Len(fe.y))
       /\ [p \in PartitionNames |-> Len(PartY(p))] = StageSizes(Len(fe.y))
  /\ SizesWithinOneRow
  /\ StageSizes(100) = [train |-> 70, val |-> 15, test |-> 15]

\* eleven labelled rows split 7 / 2 / 2
C21_Witness ==
  /\ SplitAccepted
  /\ Len(fe.y) = 11
  /\ Len(fe.X_train.rows) = 7
  /\ Len(fe.X_val.rows) = 2
  /\ Len(fe.X_test.rows) = 2

\* the recorded run of the notebook: 34432 labelled rows, 6771 of them with
\* Risk = 1 (4740 + 1016 + 1015 in the printed distributions)
RecordedRows == 34432
RecordedHigh == 6771

TwoClasses(low, high) == (F(0) :> low) @@ (F(1) :> high)

Minus(f, g) == [k \in DOMAIN f |-> f[k] - g[k]]

\* the class counts the two stratified stages can give to train, validation
\* and test for a dataset with the given class counts
ClassAllocations(counts) ==
  LET n == SumFn(counts)
      pool == TestSize(Rows(n), 3, 10)
      test == TestSize(Rows(pool), 1, 2)
  IN  UNION { UNION { UNION { { [train |-> n_i, val |-> v_i, test |-> u_i] :
                                  u_i \in approximate_mode(Minus(t_i, v_i), test) } :
                              v_i \in approximate_mode(t_i, pool - test) } :
                      t_i \in approximate_mode(Minus(counts, n_i), pool) } :
              n_i \in approximate_mode(counts, n - pool) }

Distance(a, b) == IF a < b THEN b - a ELSE a - b

\* the share of Risk = 1 among part is within 1 percentage point of its
\* share among counts
WithinOnePoint(part, counts) ==
  Distance(part[F(1)] * SumFn(counts), counts[F(1)] * SumFn(part))
    <= (SumFn(part) * SumFn(counts)) \div 100

RecordedSharesWithinOnePoint ==
  /\ ClassAllocations(TwoClasses(RecordedRows - RecordedHigh, RecordedHigh)) # {}
  /\ \A a \in ClassAllocations(TwoClasses(RecordedRows - RecordedHigh, RecordedHigh)) :
       \A p \in PartitionNames : WithinOnePoint(a[p], TwoClasses(RecordedRows - RecordedHigh, RecordedHigh))

HundredRowsKeepShares ==
  ClassAllocations(TwoClasses(80, 20))
    = {[train |-> TwoClasses(56, 14), val |-> TwoClasses(12, 3), test |-> TwoClasses(12, 3)]}

\* the class counts of a target column, both classes listed
CountsOf(y) == TwoClasses(Cardinality(Members(y, F(0))), Cardinality(Members(y, F(1))))

\* C22: when both splits are accepted, the class counts of train, validation
\* and test are an allocation of the two stratified stages, each less than
\* two rows from the proportional share; at the recorded dataset size every
\* such allocation keeps the share of Risk = 1 within 1 percentage point of
\* the full set's, and 100 rows labelled 80/20 give 80/20 in each partition.
C22_StratifiedShares ==
  /\ SplitAccepted =>
       /\ [p \in PartitionNames |-> CountsOf(PartY(p))] \in ClassAllocations(CountsOf(fe.y))
       /\ \A p \in PartitionNames :
            Distance(CountsOf(PartY(p))[F(1)] * Len(fe.y), CountsOf(fe.y)[F(1)] * Len(PartY(p)))
              < 2 * Len(fe.y)
  /\ RecordedSharesWithinOnePoint
  /\ HundredRowsKeepShares

\* six rows of Risk 0 and five of Risk 1 split into 4+3, 1+1 and 1+1
C22_Witness ==
  /\ SplitAccepted
  /\ CountsOf(fe.y) = TwoClasses(6, 5)
  /\ CountsOf(fe.y_train) = TwoClasses(4, 3)
  /\ CountsOf(fe.y_val) = TwoClasses(1, 1)
  /\ CountsOf(fe.y_test) = TwoClasses(1, 1)

\* the names the split cell binds
SplitNames == {"X", "y", "X_train", "X_temp", "y_train", "y_temp", "X_val", "X_test", "y_val", "y_test"}

\* C23: when the split cell runs again on the same labelled rows in the same
\* order, it is accepted again and every partition gets exactly the rows it
\* got in the earlier run.
C23_SameInputSameMembership ==
  [][(fe_pc = "split" /\ fe_pc' # "split" /\ SplitNames \subseteq DOMAIN fe
        /\ fe'.X = fe.X /\ fe'.y = fe.y)
       => (fe_pc' = "engineer" /\ \A name \in SplitNames : fe'[name] = fe[name])]_vars

\* the split cell has run a second time: the tables of the first run's last
\* cell are still bound
C23_Witness ==
  /\ fe_pc = "engineer"
  /\ "train_df" \in DOMAIN fe
  /\ Len(fe.X_train.rows) = 7

(***************************************************************************)
(* The label through the later stages                                      *)
(***************************************************************************)
\* the Risk the transformed dataset holds for the row of index label l
Assigned(l) == At(Col(fe.df, "Risk"), l)

\* the Risk values a partition's rows were given at label construction, in
\* the partition's row order
AssignedTo(p) == [i \in Positions(PartX(p).rows) |-> Assigned(PartX(p).rows[i].idx)]

Values(s) == [i \in Positions(s) |-> s[i].v]

PartPath(p) == IF p = "train" THEN TrainPath ELSE IF p = "val" THEN ValPath ELSE TestPath

PartDf(p) == IF p = "train" THEN fe.train_df ELSE IF p = "val" THEN fe.val_df ELSE fe.test_df

PartLoaded(p) == IF p = "train" THEN ml.y_train ELSE IF p = "val" THEN ml.y_val ELSE ml.y_test

RiskCarried ==
  /\ ("y_test" \in DOMAIN fe) =>
       \A p \in PartitionNames : Values(PartY(p)) = AssignedTo(p)
  /\ ("test_df" \in DOMAIN fe) =>
       \A p \in PartitionNames : Values(Col(PartDf(p), "Risk")) = AssignedTo(p)
  /\ ("test_df" \in DOMAIN fe /\ TestPath \in DOMAIN fs) =>
       \A p \in PartitionNames : Values(Col(read_csv(fs[PartPath(p)]), "Risk")) = AssignedTo(p)
  /\ ("test_df" \in DOMAIN fe /\ ml_pc = "loaded") =>
       \A p \in PartitionNames : Values(PartLoaded(p)) = AssignedTo(p)
  /\ (etl_pc \in {"save", "done"}) =>
       \A i \in Positions(etl.location_counts.rows) :
         etl.location_counts.rows[i].Risk
           = risk_label(etl.location_counts.rows[i].CrimeCount, etl.median_count)
  /\ (etl_pc = "done") =>
       Values(Col(read_csv(fs[TransformedPath]), "Risk")) = Values(Col(etl.location_counts, "Risk"))

RiskNeverReassigned ==
  /\ ("median_count" \in DOMAIN etl) =>
       /\ etl'.median_count = etl.median_count
       /\ etl'.location_counts = etl.location_counts
  /\ ("df" \in DOMAIN fe) => Col(fe'.df, "Risk") = Col(fe.df, "Risk")
  /\ ("y" \in DOMAIN fe) => fe'.y = fe.y
  /\ \A name \in {"y_train", "y_val", "y_test"} :
       /\ (name \in DOMAIN fe) => fe'[name] = fe[name]
       /\ (name \in DOMAIN ml) => ml'[name] = ml[name]

\* C24: the threshold and the labels bound by the aggregation cell are never
\* bound again, and every row of train, validation and test, in the
\* partitions, in the recombined tables, in the written files and in the
\* targets loaded for the fit, carries the Risk the transformed dataset holds
\* for it; no cell after the aggregation changes a Risk.
C24_RiskAssignedOnce == [][RiskNeverReassigned]_vars /\ []RiskCarried

\* targets loaded for the fit whose rows carry a Risk that a median over the
\* partition's own counts would not give
C24_Witness ==
  /\ ml_pc = "loaded"
  /\ "test_df" \in DOMAIN fe
  /\ Values(ml.y_train)
       # [i \in Positions(fe.X_train.rows) |->
            risk_label(fe.X_train.rows[i].CrimeCount, median(Col(fe.X_train, "CrimeCount")))]

(***************************************************************************)
(* The order of the stages                                                 *)
(***************************************************************************)
EtlStages == <<"extract", "clean", "aggregate", "save", "done">>
FeStages == <<"load", "split", "engineer", "save", "done">>
MlStages == <<"load", "loaded", "validate", "test", "save", "saved">>

\* a notebook at position a moves to b: the next stage, or a state outside
\* the stages (a cell raised and the run stopped)
NextStage(stages, a, b) ==
  \/ b \notin Range(stages)
  \/ \E i \in 1..(Len(stages) - 1) : stages[i] = a /\ stages[i + 1] = b

StagesInOrder ==
  /\ etl_pc' # etl_pc => NextStage(EtlStages, etl_pc, etl_pc')
  /\ fe_pc' # fe_pc =>
       \/ NextStage(FeStages, fe_pc, fe_pc')
       \/ fe_pc = "done" /\ fe_pc' = "load"
  /\ ml_pc' # ml_pc => NextStage(MlStages, ml_pc, ml_pc')

StagesComplete ==
  \* aggregation and labelling after normalization, the file after labelling
  /\ ("location_counts" \in DOMAIN etl) =>
       /\ "df" \in DOMAIN etl
       /\ \A r \in Range(etl.df.rows) : ~IsNaN(r.latitude) /\ ~IsNaN(r.longitude)
       /\ \A r \in Range(etl.location_counts.rows) : r.Risk \in {F(0), F(1)}
  /\ (etl_pc = "done") => to_csv(etl.location_counts) = fs[TransformedPath]
  \* the split on labelled rows only, engineering on the finished partitions
  /\ ("X_train" \in DOMAIN fe) =>
       /\ "df" \in DOMAIN fe
       /\ \A c \in Range(fe.y) : ~IsNaN(c.v)
       /\ Labels(fe.y) = Labels(fe.X.rows)
  /\ ("X_train_fe" \in DOMAIN fe) =>
       /\ {"X_train", "X_val", "X_test", "y_train", "y_val", "y_test"} \subseteq DOMAIN fe
       /\ \A p \in PartitionNames : Labels(PartFe(p).rows) = Labels(PartX(p).rows)
  /\ ("test_df" \in DOMAIN fe) => {"X_train_fe", "X_val_fe", "X_test_fe"} \subseteq DOMAIN fe
  /\ ("test_df" \in DOMAIN fe /\ TestPath \in DOMAIN fs) =>
       \A p \in PartitionNames : fs[PartPath(p)] = to_csv(PartDf(p))
  \* fit after loading, predictions after a completed fit, the file last
  /\ ("pipeline" \in DOMAIN ml) => {"X_train", "y_train", "X_val", "X_test"} \subseteq DOMAIN ml
  /\ ("y_val_pred" \in DOMAIN ml) => FitCompleted
  /\ ("y_test_pred" \in DOMAIN ml) => "y_val_pred" \in DOMAIN ml
  /\ (PipelinePath \in DOMAIN fs) =>
       /\ FitCompleted
       /\ {"y_val_pred", "y_test_pred"} \subseteq DOMAIN ml
       /\ fs[PipelinePath] = pickle(ml.pipeline)

C26_CountsCoverIncidents ==
  Labelled =>
    /\ \A r \in Range(LocationCounts) :
         /\ 0 <= IntOf(r.ViolentCount)
         /\ IntOf(r.ViolentCount) <= IntOf(r.CrimeCount)
         /\ IntOf(r.CrimeCount) >= 1
    /\ SumInts([i \in Positions(LocationCounts) |-> IntOf(LocationCounts[i].CrimeCount)])
         = Len(etl.df.rows)

HighRisk == {i \in Positions(LocationCounts) : LocationCounts[i].Risk = F(1)}

\* C27: at most half of the locations (rounded down) are labelled Risk = 1,
\* locations with equal CrimeCount have equal Risk, and a location with a
\* larger CrimeCount never has a lower Risk.
C27_HighRiskNeverMajority ==
  Labelled =>
    /\ 2 * Cardinality(HighRisk) <= Len(LocationCounts)
    /\ \A r1 \in Range(LocationCounts) : \A r2 \in Range(LocationCounts) :
         /\ (r1.CrimeCount = r2.CrimeCount) => (r1.Risk = r2.Risk)
         /\ (IntOf(r1.CrimeCount) > IntOf(r2.CrimeCount)) => (IntOf(r1.Risk) >= IntOf(r2.Risk))

\* three locations, one of them above the median and labelled Risk = 1
C27_Witness ==
  /\ Labelled
  /\ Len(LocationCounts) = 3
  /\ Cardinality(HighRisk) = 1
  /\ \E r \in Range(LocationCounts) : r.Risk = F(0) /\ IntOf(r.CrimeCount) >= 1

\* the features engineer_features gives the rows of the written transformed
\* dataset (the rows of every partition are among them, each engineered
\* from its own fields)
EngineeredAggregate == engineer_features(Drop(read_csv(fs[TransformedPath]), "Risk"))

Positive(v) == v.k \in {"q", "root"} /\ v.s = 1

NonNegative(v) == v.k \in {"q", "root"} /\ v.s \in {0, 1}

\* a rational between 0 and 1
UnitShare(v) ==
  /\ v.k = "q"
  /\ v.s \in {0, 1}
  /\ v.n[1] = 0 /\ v.d[1] = 0
  /\ v.n[2] <= v.d[2]

\* C28: for every row of the transformed dataset written by the ETL notebook,
\* the engineered ViolentRatio lies in [0, 1], CrimeDensity is strictly
\* positive, DistanceFromCenter is not negative and none of them is missing.
C28_FeatureRanges ==
  (etl_pc = "done") =>
    \A g \in {EngineeredAggregate} : \A i \in Positions(g.rows) :
      /\ UnitShare(g.rows[i].ViolentRatio)
      /\ Positive(g.rows[i].CrimeDensity)
      /\ NonNegative(g.rows[i].DistanceFromCenter)

(***************************************************************************)
(* The written engineered datasets                                         *)
(***************************************************************************)
EngineeredColumns == AggregateHeader \o <<"CrimeDensity", "ViolentRatio", "DistanceFromCenter">>

\* C29: each written engineered dataset has the seven feature columns and
\* Risk, one record per row of its partition in the partition's order, and
\* the i-th record holds the engineered features of the partition's i-th
\* row with the Risk of that same row, which is not missing.
C29_WrittenRowsPairFeaturesWithRisk ==
  (fe_pc = "done") =>
    \A p \in PartitionNames :
      /\ fs[PartPath(p)].cols = EngineeredColumns \o <<"Risk">>
      /\ Len(fs[PartPath(p)].rows) = Len(PartX(p).rows)
      /\ Len(PartY(p)) = Len(PartX(p).rows)
      /\ \A i \in Positions(PartX(p).rows) :
           /\ PartY(p)[i].idx = PartX(p).rows[i].idx
           /\ PartFe(p).rows[i].idx = PartX(p).rows[i].idx
           /\ \A c \in Range(EngineeredColumns) : fs[PartPath(p)].rows[i][c] = PartFe(p).rows[i][c]
           /\ fs[PartPath(p)].rows[i].Risk = PartY(p)[i].v
           /\ fs[PartPath(p)].rows[i].Risk \in {F(0), F(1)}

\* datasets written for partitions whose index labels are not 0, 1, ...
C29_Witness ==
  /\ fe_pc = "done"
  /\ \A p \in PartitionNames :
       /\ PartX(p).rows # <<>>
       /\ \E i \in Positions(PartX(p).rows) : PartX(p).rows[i].idx # i - 1
  /\ Len(fs[TrainPath].rows) = 7

\* C30: the datasets the original notebook's last cell writes from the
\* partitions are the datasets the current notebook has written.
C30_OriginalWritesSameDatasets ==
  (fe_pc = "done") =>
    \A p \in PartitionNames : OriginalDatasets(fe)[p] = fs[PartPath(p)]

====
